---- MODULE Spec2Model ----
(***************************************************************************)
(* Billboard Sentinel: the violation rules engine (backend/app/rules.py)   *)
(* and the geofence check (backend/app/geofence.py).                       *)
(*                                                                         *)
(* Units.  Python floats are modelled in fixed point:                      *)
(*   - rule thresholds in tenths (48.0 -> 480, 0.7 -> 7);                  *)
(*   - est_width_m / est_height_m in whole metres, areas in tenths of m2;  *)
(*   - latitudes and longitudes in 1e-4 degree (30.3555 -> 303555);        *)
(*   - distances in centimetres; confidences in thousandths.               *)
(* Python values that may be None are records with an isNone field.        *)
(* Strings that the code trims, lower-cases or searches are sequences of   *)
(* one-character strings.                                                  *)
(***************************************************************************)
EXTENDS Integers, Sequences, FiniteSets, TLC

VARIABLES
    rules,               \* BillboardRulesEngine.rules
    enabledAtAdd,        \* history: the enabled flag each rule was constructed with
    disableCalled,       \* history: the rule types disable_rule was called with
    addedSince,          \* history: types of which an enabled rule was added after the last disable_rule of that type
    detection,           \* argument of the last evaluate_detection
    point,               \* (lat, lon) of the last evaluate_detection
    junctions_data,      \* argument of the last evaluate_detection
    registry_check_func, \* argument of the last evaluate_detection
    outcome,             \* what the last evaluate_detection did: returned list, or exception, and the callback calls
    ev,                  \* a thread inside evaluate_detection: its place in the loop and its local violations
    wr,                  \* a thread inside disable_rule: its rule type and its place in the loop
    snapshots,           \* history: the rule collections between writes, since the running evaluate_detection began
    geo,                 \* the last check_location_compliance: arguments and result
    db,                  \* the last check_permitted_database: arguments and result
    validation,          \* the last validate_billboard_location: arguments and result
    estimate,            \* the last estimate_size_from_bbox: arguments and result
    pip,                 \* the last _point_in_polygon: arguments and result
    summary,             \* the last get_rule_summary: its result
    users,               \* the rows of models.User, in insertion order
    tokens,              \* the access tokens create_user_tokens has issued
    response             \* the last request to the authentication routes and its response

engineVars == <<rules, enabledAtAdd, disableCalled, addedSince>>
callVars == <<detection, point, junctions_data, registry_check_func, outcome>>
threadVars == <<ev, wr, snapshots>>
authVars == <<users, tokens, response>>
utilVars == <<db, validation, estimate, pip, summary, authVars>>
vars == <<engineVars, callVars, threadVars, geo, utilVars>>

(***************************************************************************)
(* Bounds of the model.                                                    *)
(***************************************************************************)
MaxCustom == 1
MaxJunctions == 2

(***************************************************************************)
(* ViolationType, ViolationRule                                            *)
(***************************************************************************)
SIZE_VIOLATION == "size"
PLACEMENT_VIOLATION == "placement"
LICENSE_MISSING == "license_missing"
LICENSE_INVALID == "license_invalid"
OBSCENE_CONTENT == "obscene_content"
JUNCTION_PROXIMITY == "junction_proximity"

ViolationType ==
    {SIZE_VIOLATION, PLACEMENT_VIOLATION, LICENSE_MISSING, LICENSE_INVALID,
     OBSCENE_CONTENT, JUNCTION_PROXIMITY}

ViolationRule(t, th, sev, en) ==
    [rule_type |-> t, threshold |-> th, severity |-> sev, enabled |-> en]

\* _load_default_rules with CITY_MAX_AREA = maxArea and CITY_MIN_DIST = minDist
\* (tenths); the defaults are 48.0 and 50.0.
_load_default_rules(maxArea, minDist) ==
    << ViolationRule(SIZE_VIOLATION, maxArea, 4, TRUE),
       ViolationRule(JUNCTION_PROXIMITY, minDist, 3, TRUE),
       ViolationRule(LICENSE_MISSING, 10, 5, TRUE),
       ViolationRule(OBSCENE_CONTENT, 7, 5, TRUE),
       ViolationRule(LICENSE_INVALID, 10, 5, TRUE) >>

DefaultMaxArea == 480
DefaultMinDist == 500

(***************************************************************************)
(* Python values                                                           *)
(***************************************************************************)
None == [isNone |-> TRUE, val |-> <<>>]
Some(s) == [isNone |-> FALSE, val |-> s]

\* bool(x) of an Optional[str] / Optional[list]: None and empty are falsy
Truthy(x) == ~x.isNone /\ x.val # <<>>

Whitespace == {" ", "\t", "\n"}

RECURSIVE lstrip(_)
lstrip(s) ==
    IF s # <<>> /\ Head(s) \in Whitespace THEN lstrip(Tail(s)) ELSE s

RECURSIVE rstrip(_)
rstrip(s) ==
    IF s # <<>> /\ s[Len(s)] \in Whitespace
    THEN rstrip(SubSeq(s, 1, Len(s) - 1)) ELSE s

\* str.strip()
strip(s) == rstrip(lstrip(s))

UpperCase == <<"A","B","C","D","E","F","G","H","I","J","K","L","M",
               "N","O","P","Q","R","S","T","U","V","W","X","Y","Z">>
LowerCase == <<"a","b","c","d","e","f","g","h","i","j","k","l","m",
               "n","o","p","q","r","s","t","u","v","w","x","y","z">>

lowerChar(c) ==
    IF \E i \in 1..Len(UpperCase) : UpperCase[i] = c
    THEN LowerCase[CHOOSE i \in 1..Len(UpperCase) : UpperCase[i] = c]
    ELSE c

\* str.lower()
lower(s) == [i \in 1..Len(s) |-> lowerChar(s[i])]

\* kw in text
Contains(kw, text) ==
    \E i \in 0..(Len(text) - Len(kw)) : SubSeq(text, i + 1, i + Len(kw)) = kw

Min(a, b) == IF a <= b THEN a ELSE b
Max(a, b) == IF a >= b THEN a ELSE b
Abs(a) == IF a < 0 THEN -a ELSE a

\* floor of the square root (Newton iteration from above)
RECURSIVE ISqrtFrom(_, _)
ISqrtFrom(n, r) ==
    LET s == (r + n \div r) \div 2 IN IF s >= r THEN r ELSE ISqrtFrom(n, s)

ISqrt(n) == IF n <= 0 THEN 0 ELSE ISqrtFrom(n, n)

(***************************************************************************)
(* _haversine_distance, in centimetres.  At the scale the thresholds and   *)
(* buffers live on (tens of metres), the great circle distance is the      *)
(* local equirectangular one: one 1e-4 degree of latitude is 11.12 m, and  *)
(* one of longitude 9.60 m at latitude 30.35 (cos = 0.863).  The squared   *)
(* distance is exact in the model, so < and <= against a threshold are     *)
(* decided without rounding.                                               *)
(***************************************************************************)
CmPerLatUnit == 1112
CmPerLonUnit == 960

DistNorth(lat1, lat2) == Abs(CmPerLatUnit * (lat2 - lat1))
DistEast(lon1, lon2) == Abs(CmPerLonUnit * (lon2 - lon1))

\* Beyond 300 m in either direction the model returns the larger of the two
\* legs, a lower bound of the distance that is above every threshold, buffer
\* and tolerance of the program (and keeps the squares within TLC's integers).
_haversine_distance(lat1, lon1, lat2, lon2) ==
    LET dy == DistNorth(lat1, lat2)
        dx == DistEast(lon1, lon2)
    IN  IF Max(dy, dx) > 30000 THEN Max(dy, dx)
        ELSE ISqrt(dy * dy + dx * dx)

\* distance < limitCm, decided on the squares
DistLess(lat1, lon1, lat2, lon2, limitCm) ==
    LET dy == DistNorth(lat1, lat2)
        dx == DistEast(lon1, lon2)
    IN  /\ limitCm > 0
        /\ dy < limitCm
        /\ dx < limitCm
        /\ dy * dy + dx * dx < limitCm * limitCm

\* distance <= limitCm
DistAtMost(lat1, lon1, lat2, lon2, limitCm) ==
    LET dy == DistNorth(lat1, lat2)
        dx == DistEast(lon1, lon2)
    IN  /\ limitCm >= 0
        /\ dy <= limitCm
        /\ dx <= limitCm
        /\ dy * dy + dx * dx <= limitCm * limitCm

(***************************************************************************)
(* Detection, Violation and the result of one rule check                   *)
(***************************************************************************)
\* bbox and confidence of a Detection are never read by the engine
Detection(w, h, lic, ocr) ==
    [est_width_m |-> w, est_height_m |-> h, license_id |-> lic, ocr_text |-> ocr]

Violation(rule, conf, meta) ==
    [rule_type |-> rule.rule_type, severity |-> rule.severity,
     confidence |-> conf, metadata |-> meta]

\* a check returns None, returns a Violation, or raises
NoViolation == [kind |-> "none"]
Fired(v) == [kind |-> "violation", v |-> v]
Raises(e) == [kind |-> "raise", error |-> e]

\* area of a detection in tenths of m2
Area10(det) == det.est_width_m * det.est_height_m * 10

\* the comparison of _check_size_violation
AreaExceeds(area, max_area) == area > max_area

\* a / b in thousandths, b # 0, rounded towards minus infinity
Quotient1000(a, b) ==
    IF b > 0 THEN (a * 1000) \div b ELSE ((0 - a) * 1000) \div (0 - b)

_check_size_violation(det, rule) ==
    LET area == Area10(det)
        max_area == rule.threshold
    IN  IF AreaExceeds(area, max_area)
        THEN IF max_area = 0
             THEN Raises("ZeroDivisionError")   \* (area - max_area) / max_area
             ELSE Fired(Violation(rule,
                        Min(900, Quotient1000(area - max_area, max_area)),
                        [actual_area |-> area, max_area |-> max_area]))
        ELSE NoViolation

(***************************************************************************)
(* Junction features as Python values.  geometry and properties are        *)
(* "missing" (no such key), "not_mapping" (None, a number, a string ...)   *)
(* or "mapping"; coordinates are "missing", "not_subscriptable" or a       *)
(* "list" of items, numeric or not.                                        *)
(***************************************************************************)
Num(v) == [num |-> TRUE, v |-> v]
NotNum == [num |-> FALSE, v |-> 0]

Junction(isMapping, geometry, coordsKind, coords, properties, hasName, name) ==
    [isMapping |-> isMapping, geometry |-> geometry, coordsKind |-> coordsKind,
     coords |-> coords, properties |-> properties, hasName |-> hasName,
     name |-> name]

\* junction["geometry"]["coordinates"], j_coords[0], j_coords[1] and the
\* arithmetic of _haversine_distance: the exception raised, or "ok"
JunctionAccess(j) ==
    IF ~j.isMapping THEN "TypeError"
    ELSE IF j.geometry = "missing" THEN "KeyError"
    ELSE IF j.geometry = "not_mapping" THEN "TypeError"
    ELSE IF j.coordsKind = "missing" THEN "KeyError"
    ELSE IF j.coordsKind = "not_subscriptable" THEN "TypeError"
    ELSE IF Len(j.coords) < 2 THEN "IndexError"
    ELSE IF ~j.coords[1].num \/ ~j.coords[2].num THEN "TypeError"
    ELSE "ok"

\* junction.get("properties", {}).get("name", "Unknown Junction")
JunctionName(j) ==
    IF j.properties = "missing" THEN Some("Unknown Junction")
    ELSE IF j.properties = "not_mapping" THEN None   \* AttributeError
    ELSE IF j.hasName THEN Some(j.name) ELSE Some("Unknown Junction")

\* distance <= min_distance
TooCloseOrEqual(lat, lon, j_lat, j_lon, min_distance) ==
    DistAtMost(lat, lon, j_lat, j_lon, min_distance * 10)

\* distance < min_distance, min_distance in tenths of a metre
TooClose(lat, lon, j_lat, j_lon, min_distance) ==
    DistLess(lat, lon, j_lat, j_lon, min_distance * 10)

JunctionViolation(lat, lon, rule, j) ==
    LET j_lon == j.coords[1].v
        j_lat == j.coords[2].v
        min_cm == rule.threshold * 10
        distance == _haversine_distance(lat, lon, j_lat, j_lon)
        junction_name == JunctionName(j)
    IN  IF junction_name.isNone
        THEN Raises("AttributeError")
        ELSE Fired(Violation(rule,
                   Min(900, ((min_cm - distance) * 1000) \div min_cm),
                   [distance |-> distance, junction_name |-> junction_name.val]))

RECURSIVE JunctionLoop(_, _, _, _, _)
JunctionLoop(lat, lon, rule, items, i) ==
    IF i > Len(items) THEN NoViolation
    ELSE LET j == items[i] IN
         IF JunctionAccess(j) # "ok"
         THEN JunctionLoop(lat, lon, rule, items, i + 1)    \* except ...: continue
         ELSE IF TooClose(lat, lon, j.coords[2].v, j.coords[1].v, rule.threshold)
              THEN JunctionViolation(lat, lon, rule, j)
              ELSE JunctionLoop(lat, lon, rule, items, i + 1)

\* no guard: iterating None raises
_check_junction_proximity_unguarded(lat, lon, rule, jd) ==
    IF jd.isNone THEN Raises("TypeError")
    ELSE JunctionLoop(lat, lon, rule, jd.val, 1)

_check_junction_proximity(lat, lon, rule, jd) ==
    IF ~Truthy(jd) THEN NoViolation
    ELSE JunctionLoop(lat, lon, rule, jd.val, 1)

(***************************************************************************)
(* License and content checks                                              *)
(***************************************************************************)
\* the test without strip()
LicenseBlankNoStrip(license_id) == ~Truthy(license_id)

\* not detection.license_id or detection.license_id.strip() == ""
LicenseBlank(license_id) ==
    ~Truthy(license_id) \/ strip(license_id.val) = <<>>

_check_license_missing(det, rule) ==
    IF LicenseBlank(det.license_id)
    THEN Fired(Violation(rule, 800, [ocr_text |-> det.ocr_text]))
    ELSE NoViolation

\* The registry callbacks the model supplies: none, one that knows no
\* license, one that knows every license, and a registry of the licenses
\* RegisteredLicenses.
NoCallback == "none"
RegisteredLicenses == { <<"X">> }
RegistryCallbacks == {"reject_all", "accept_all", "registry"}

registry_call(f, license_id) ==
    CASE f = "reject_all" -> FALSE
      [] f = "accept_all" -> TRUE
      [] f = "registry" -> license_id \in RegisteredLicenses

\* the license id as it is
RegistryArgumentUntrimmed(license_id) == license_id.val

\* the argument _check_license_invalid hands the callback
RegistryArgument(license_id) == strip(license_id.val)

\* returns the check's result and the arguments the callback was called with
_check_license_invalid(det, rule, f) ==
    IF ~Truthy(det.license_id) \/ f = NoCallback
    THEN [res |-> NoViolation, calls |-> <<>>]
    ELSE LET arg == RegistryArgument(det.license_id)
             is_valid == registry_call(f, arg)
         IN  [res |-> IF ~is_valid
                      THEN Fired(Violation(rule, 900,
                                 [license_id |-> det.license_id.val]))
                      ELSE NoViolation,
              calls |-> <<arg>>]

obscene_keywords ==
    << <<"e","x","p","l","i","c","i","t">>, <<"a","d","u","l","t">>,
       <<"x","x","x">>, <<"g","a","m","b","l","i","n","g">>,
       <<"t","o","b","a","c","c","o">>, <<"a","l","c","o","h","o","l">>,
       <<"d","r","u","g","s">>, <<"v","i","o","l","e","n","c","e">>,
       <<"h","a","t","e">> >>

\* only the first keyword found is kept
FoundKeywordsFirstOnly(text_lower) ==
    LET found == SelectSeq(obscene_keywords, LAMBDA kw : Contains(kw, text_lower))
    IN  IF found = <<>> THEN <<>> ELSE <<found[1]>>

\* [kw for kw in self.obscene_keywords if kw in text_lower]
FoundKeywords(text_lower) ==
    SelectSeq(obscene_keywords, LAMBDA kw : Contains(kw, text_lower))

_check_obscene_content(det, rule) ==
    IF ~Truthy(det.ocr_text) THEN NoViolation
    ELSE LET found_keywords == FoundKeywords(lower(det.ocr_text.val)) IN
         IF found_keywords # <<>>
         THEN Fired(Violation(rule, Min(950, Len(found_keywords) * 300),
                    [keywords |-> found_keywords, full_text |-> det.ocr_text.val]))
         ELSE NoViolation

(***************************************************************************)
(* evaluate_detection                                                      *)
(***************************************************************************)
\* one pass of the loop body for an enabled rule: the check's result and the
\* callback calls it made
CheckRule(rule, det, lat, lon, jd, f) ==
    IF rule.rule_type = SIZE_VIOLATION
    THEN [res |-> _check_size_violation(det, rule), calls |-> <<>>]
    ELSE IF rule.rule_type = JUNCTION_PROXIMITY
    THEN [res |-> _check_junction_proximity(lat, lon, rule, jd), calls |-> <<>>]
    ELSE IF rule.rule_type = LICENSE_MISSING
    THEN [res |-> _check_license_missing(det, rule), calls |-> <<>>]
    ELSE IF rule.rule_type = LICENSE_INVALID /\ f # NoCallback
    THEN _check_license_invalid(det, rule, f)
    ELSE IF rule.rule_type = OBSCENE_CONTENT
    THEN [res |-> _check_obscene_content(det, rule), calls |-> <<>>]
    ELSE [res |-> NoViolation, calls |-> <<>>]

\* the state of a call: running, returned (violations is the list) or raised
Returned(violations, calls) ==
    [status |-> "returned", violations |-> violations, calls |-> calls,
     error |-> "none"]
Raised(e, calls) ==
    [status |-> "raised", violations |-> <<>>, calls |-> calls, error |-> e]
NotCalled ==
    [status |-> "none", violations |-> <<>>, calls |-> <<>>, error |-> "none"]

RECURSIVE EvaluateFrom(_, _, _, _, _, _, _, _, _)
EvaluateFrom(rs, i, det, lat, lon, jd, f, violations, calls) ==
    IF i > Len(rs) THEN Returned(violations, calls)
    ELSE IF ~rs[i].enabled
    THEN EvaluateFrom(rs, i + 1, det, lat, lon, jd, f, violations, calls)
    ELSE LET c == CheckRule(rs[i], det, lat, lon, jd, f) IN
         IF c.res.kind = "raise" THEN Raised(c.res.error, calls \o c.calls)
         ELSE EvaluateFrom(rs, i + 1, det, lat, lon, jd, f,
                  IF c.res.kind = "violation"
                  THEN Append(violations, c.res.v) ELSE violations,
                  calls \o c.calls)

\* a loop that stops at the first violation
evaluate_detection_first_only(rs, det, lat, lon, jd, f) ==
    LET o == EvaluateFrom(rs, 1, det, lat, lon, jd, f, <<>>, <<>>) IN
    IF o.status = "returned" /\ Len(o.violations) > 1
    THEN [o EXCEPT !.violations = <<Head(o.violations)>>] ELSE o

evaluate_detection(rs, det, lat, lon, jd, f) ==
    EvaluateFrom(rs, 1, det, lat, lon, jd, f, <<>>, <<>>)

(***************************************************************************)
(* add_custom_rule, disable_rule                                           *)
(***************************************************************************)
\* an insert at the head of the list
add_custom_rule_first(rs, rule) == <<rule>> \o rs

add_custom_rule(rs, rule) == Append(rs, rule)

\* a loop that stops at the first rule of the type
disable_rule_first_only(rs, rule_type) ==
    [i \in 1..Len(rs) |->
        IF /\ rs[i].rule_type = rule_type
           /\ \A k \in 1..(i - 1) : rs[k].rule_type # rule_type
        THEN [rs[i] EXCEPT !.enabled = FALSE] ELSE rs[i]]

disable_rule(rs, rule_type) ==
    [i \in 1..Len(rs) |->
        IF rs[i].rule_type = rule_type
        THEN [rs[i] EXCEPT !.enabled = FALSE] ELSE rs[i]]

(***************************************************************************)
(* The inputs the model draws                                              *)
(***************************************************************************)
\* the rules add_custom_rule is called with
CustomRules ==
    { ViolationRule(SIZE_VIOLATION, th, 2, en) : th \in {0, 1000}, en \in BOOLEAN }
    \cup { ViolationRule(SIZE_VIOLATION, -100, 2, TRUE) }
    \cup { ViolationRule(JUNCTION_PROXIMITY, 556, 1, en) : en \in BOOLEAN }
    \cup { ViolationRule(t, 10, 3, en) :
             t \in {PLACEMENT_VIOLATION, LICENSE_MISSING, LICENSE_INVALID,
                    OBSCENE_CONTENT},
             en \in BOOLEAN }

\* the point of the tests, (30.3555, 76.3651)
TestPoint == <<303555, 763651>>

\* well-formed junction features, dLat 1e-4 degrees north of the test point
JunctionAt(dLat, name) ==
    Junction(TRUE, "mapping", "list",
             <<Num(TestPoint[2]), Num(TestPoint[1] + dLat)>>, "mapping", TRUE, name)

J_same == JunctionAt(0, "Sector 17 Junction")    \* 0 m
J_near == JunctionAt(4, "Near Junction")         \* 44.48 m
J_edge == JunctionAt(5, "Edge Junction")         \* 55.60 m
J_far == JunctionAt(450, "Far Junction")         \* 5 km
\* well-formed geometry at 11.12 m, no properties key / properties without a name
J_noprops ==
    Junction(TRUE, "mapping", "list",
             <<Num(TestPoint[2]), Num(TestPoint[1] + 1)>>, "missing", FALSE, "")
J_noname ==
    Junction(TRUE, "mapping", "list",
             <<Num(TestPoint[2]), Num(TestPoint[1] + 1)>>, "mapping", FALSE, "")
\* malformed features
M_notmapping == Junction(FALSE, "missing", "missing", <<>>, "missing", FALSE, "")
M_nogeometry == Junction(TRUE, "missing", "missing", <<>>, "mapping", TRUE, "No Geometry")
M_geometrynone == Junction(TRUE, "not_mapping", "missing", <<>>, "mapping", TRUE, "Geometry None")
M_nocoordinates == Junction(TRUE, "mapping", "missing", <<>>, "mapping", TRUE, "No Coordinates")
M_coordsnone == Junction(TRUE, "mapping", "not_subscriptable", <<>>, "mapping", TRUE, "Coordinates None")
M_onecoord ==
    Junction(TRUE, "mapping", "list", <<Num(TestPoint[2])>>, "mapping", TRUE, "One Coordinate")
M_nonnumeric ==
    Junction(TRUE, "mapping", "list", <<NotNum, NotNum>>, "mapping", TRUE, "Not Numeric")
\* properties that are not a mapping, geometry at 0 m and at 5 km
M_badprops_same ==
    Junction(TRUE, "mapping", "list",
             <<Num(TestPoint[2]), Num(TestPoint[1])>>, "not_mapping", FALSE, "")
M_badprops_far ==
    Junction(TRUE, "mapping", "list",
             <<Num(TestPoint[2]), Num(TestPoint[1] + 450)>>, "not_mapping", FALSE, "")

WellFormedJunctions == {J_same, J_near, J_edge, J_far}
MalformedJunctions ==
    {J_noprops, J_noname, M_notmapping, M_nogeometry, M_geometrynone,
     M_nocoordinates, M_coordsnone, M_onecoord, M_nonnumeric,
     M_badprops_same, M_badprops_far}

SeqsUpTo(S, n) == UNION { [1..k -> S] : k \in 0..n }

Dimensions == { <<0, 5>>, <<8, 6>>, <<7, 7>>, <<20, 6>> }   \* 0, 48, 49, 120 m2

LicenseIds ==
    { None, Some(<<>>), Some(<<" ">>), Some(<<" ", "\t">>), Some(<<"X">>),
      Some(<<" ", "X", " ">>), Some(<<"Y">>) }

OcrTexts ==
    { None, Some(<<>>), Some(<<"S","a","l","e">>),
      Some(<<"X","x","X"," ","A","d","u","l","t">>),
      Some(<<"W","h","a","t","e","v","e","r">>),
      Some(<<"x","x","x"," ","A","D","U","L","T"," ","d","r","u","g","s"," ","H","a","t","e">>) }

AdultText == Some(<<"X","x","X"," ","A","d","u","l","t">>)

\* the calls of evaluate_detection the engine specification makes
EngineDetections ==
    { Detection(d[1], d[2], lic, ocr) :
        d \in { <<8, 6>>, <<20, 6>> }, lic \in { None, Some(<<"X">>) },
        ocr \in { None, AdultText } }
EngineJunctions == { None, Some(<<J_same>>), Some(<<J_far>>) }
EngineCallbacks == { NoCallback, "reject_all" }

NoDetection == Detection(0, 0, None, None)

\* no thread is inside evaluate_detection / disable_rule
NoEvaluation == [pc |-> "idle", i |-> 0, violations |-> <<>>, calls |-> <<>>]
NoWrite == [pc |-> "idle", rule_type |-> "", i |-> 0, before |-> <<>>]

\* check_location_compliance has not been called
\* no call of the operation has been made
NoCall == [called |-> FALSE]

NoGeoCall ==
    [called |-> FALSE, lat |-> 0, lon |-> 0, billboard_area_m2 |-> 0,
     compliance_status |-> "", zone_id |-> "", violations |-> <<>>,
     recommendations |-> <<>>]

(***************************************************************************)
(* Spec: one engine, its operations called one after the other             *)
(***************************************************************************)
Init ==
    /\ rules = _load_default_rules(DefaultMaxArea, DefaultMinDist)
    /\ enabledAtAdd = [i \in 1..5 |-> TRUE]
    /\ disableCalled = {}
    /\ addedSince = {}
    /\ detection = NoDetection
    /\ point = TestPoint
    /\ junctions_data = None
    /\ registry_check_func = NoCallback
    /\ outcome = NotCalled
    /\ ev = NoEvaluation
    /\ wr = NoWrite
    /\ snapshots = {}
    /\ geo = NoGeoCall
    /\ db = NoCall
    /\ validation = NoCall
    /\ estimate = NoCall
    /\ pip = NoCall
    /\ summary = NoCall
    /\ users = <<>>
    /\ tokens = {}
    /\ response = NoCall

\* no call of evaluate_detection is being looked at
Idle == outcome.status = "none"

AddCustomRule ==
    \E rule \in CustomRules :
        /\ Idle
        /\ Len(rules) < 5 + MaxCustom
        /\ rules' = add_custom_rule(rules, rule)
        /\ enabledAtAdd' = Append(enabledAtAdd, rule.enabled)
        /\ addedSince' = IF rule.enabled THEN addedSince \cup {rule.rule_type}
                         ELSE addedSince
        /\ UNCHANGED <<disableCalled, callVars, threadVars, geo, utilVars>>

DisableRule ==
    \E rule_type \in ViolationType :
        /\ Idle
        /\ rules' = disable_rule(rules, rule_type)
        /\ disableCalled' = disableCalled \cup {rule_type}
        /\ addedSince' = addedSince \ {rule_type}
        /\ UNCHANGED <<enabledAtAdd, callVars, threadVars, geo, utilVars>>

EvaluateDetection ==
    \E det \in EngineDetections, jd \in EngineJunctions, f \in EngineCallbacks :
        /\ Idle
        /\ detection' = det
        /\ point' = TestPoint
        /\ junctions_data' = jd
        /\ registry_check_func' = f
        /\ outcome' = evaluate_detection(rules, det, TestPoint[1], TestPoint[2], jd, f)
        /\ UNCHANGED <<engineVars, threadVars, geo, utilVars>>

\* the caller is done with the result of the call
Discard ==
    /\ ~Idle
    /\ detection' = NoDetection
    /\ point' = TestPoint
    /\ junctions_data' = None
    /\ registry_check_func' = NoCallback
    /\ outcome' = NotCalled
    /\ UNCHANGED <<engineVars, threadVars, geo, utilVars>>

Next == AddCustomRule \/ DisableRule \/ EvaluateDetection \/ Discard

Spec == Init /\ [][Next]_vars

(***************************************************************************)
(* SpecChecks: engines as construction and one add_custom_rule leave them, *)
(* each evaluating one detection drawn from the full input sets            *)
(***************************************************************************)
CityMinDists == { DefaultMinDist, 556 }

CheckedRules ==
    { _load_default_rules(DefaultMaxArea, d) : d \in CityMinDists }
    \cup { add_custom_rule(_load_default_rules(DefaultMaxArea, d), r) :
             d \in CityMinDists, r \in CustomRules }

JunctionLists ==
    { Some(l) : l \in SeqsUpTo(WellFormedJunctions \cup MalformedJunctions, MaxJunctions) }

InitChecks ==
    /\ rules \in CheckedRules
    /\ enabledAtAdd = [i \in 1..Len(rules) |-> rules[i].enabled]
    /\ disableCalled = {}
    /\ addedSince = { rules[i].rule_type : i \in { k \in 6..Len(rules) : rules[k].enabled } }
    /\ point = TestPoint
    /\ outcome = NotCalled
    /\ ev = NoEvaluation
    /\ wr = NoWrite
    /\ snapshots = {}
    /\ geo = NoGeoCall
    /\ db = NoCall
    /\ validation = NoCall
    /\ estimate = NoCall
    /\ pip = NoCall
    /\ summary = NoCall
    /\ users = <<>>
    /\ tokens = {}
    /\ response = NoCall
    /\ \/ /\ detection \in { Detection(d[1], d[2], lic, ocr) :
                               d \in Dimensions, lic \in LicenseIds, ocr \in OcrTexts }
          /\ junctions_data \in { None, Some(<<>>), Some(<<J_same>>) }
          /\ registry_check_func \in {NoCallback} \cup RegistryCallbacks
       \/ /\ detection \in { Detection(d[1], d[2], Some(<<"X">>), None) :
                               d \in { <<8, 6>>, <<20, 6>> } }
          /\ junctions_data \in JunctionLists
          /\ registry_check_func = NoCallback

EvaluateDrawn ==
    /\ outcome.status = "none"
    /\ outcome' = evaluate_detection(rules, detection, point[1], point[2],
                                     junctions_data, registry_check_func)
    /\ UNCHANGED <<engineVars, detection, point, junctions_data,
                   registry_check_func, threadVars, geo, utilVars>>

NextChecks == EvaluateDrawn

SpecChecks == InitChecks /\ [][NextChecks]_vars

(***************************************************************************)
(* What the claims speak of                                                *)
(***************************************************************************)
Evaluated == outcome.status # "none"
HasReturned == outcome.status = "returned"

OfType(vs, t) == SelectSeq(vs, LAMBDA v : v.rule_type = t)
Others(vs, t) == SelectSeq(vs, LAMBDA v : v.rule_type # t)
EnabledOfType(rs, t) == SelectSeq(rs, LAMBDA r : r.enabled /\ r.rule_type = t)

\* a string of whitespace only (the empty string included)
AllWhitespace(s) == \A k \in 1..Len(s) : s[k] \in Whitespace

\* t is s without its leading and trailing whitespace
IsTrimOf(t, s) ==
    /\ t = <<>> \/ (t[1] \notin Whitespace /\ t[Len(t)] \notin Whitespace)
    /\ \E a \in 1..(Len(s) + 1) : \E b \in 0..Len(s) :
          /\ t = SubSeq(s, a, b)
          /\ \A k \in 1..(a - 1) : s[k] \in Whitespace
          /\ \A k \in (b + 1)..Len(s) : s[k] \in Whitespace

\* the junction feature carries two numeric coordinates
WellFormedGeometry(j) ==
    /\ j.isMapping /\ j.geometry = "mapping" /\ j.coordsKind = "list"
    /\ Len(j.coords) >= 2 /\ j.coords[1].num /\ j.coords[2].num

\* the junction is strictly closer to the point than threshold (tenths of m)
StrictlyCloser(j, threshold) ==
    /\ WellFormedGeometry(j)
    /\ _haversine_distance(point[1], point[2], j.coords[2].v, j.coords[1].v)
         < threshold * 10

\* the condition of a rule on the arguments of the last call
ConditionHolds(rule) ==
    CASE rule.rule_type = SIZE_VIOLATION ->
            Area10(detection) > rule.threshold
      [] rule.rule_type = JUNCTION_PROXIMITY ->
            /\ ~junctions_data.isNone
            /\ \E k \in 1..Len(junctions_data.val) :
                  StrictlyCloser(junctions_data.val[k], rule.threshold)
      [] rule.rule_type = LICENSE_MISSING ->
            detection.license_id.isNone \/ AllWhitespace(detection.license_id.val)
      [] rule.rule_type = LICENSE_INVALID ->
            /\ registry_check_func # NoCallback
            /\ ~detection.license_id.isNone
            /\ detection.license_id.val # <<>>
            /\ \E t \in {strip(detection.license_id.val)} :
                  ~registry_call(registry_check_func, t)
      [] rule.rule_type = OBSCENE_CONTENT ->
            /\ ~detection.ocr_text.isNone
            /\ \E k \in 1..Len(obscene_keywords) :
                  Contains(obscene_keywords[k], lower(detection.ocr_text.val))
      [] OTHER -> FALSE

TypeAndSeverity(s) == [i \in 1..Len(s) |-> <<s[i].rule_type, s[i].severity>>]

\* C3: whenever evaluate_detection returns, the list holds exactly one
\* violation for each enabled rule whose condition holds, none for any other
\* rule, in the order of the rules, each with the severity of its rule.
C3_OneViolationPerFiredRule ==
    HasReturned =>
        TypeAndSeverity(outcome.violations) =
            TypeAndSeverity(SelectSeq(rules, LAMBDA r : r.enabled /\ ConditionHolds(r)))

\* a call on which four of the default rules and a custom rule fire
C3_Witness ==
    /\ HasReturned
    /\ Len(rules) = 6
    /\ TypeAndSeverity(outcome.violations) =
          << <<SIZE_VIOLATION, 4>>, <<JUNCTION_PROXIMITY, 3>>, <<LICENSE_MISSING, 5>>,
             <<OBSCENE_CONTENT, 5>>, <<SIZE_VIOLATION, 2>> >>

\* the violation an enabled rule produced in the last call, if any: one of
\* its type that carries the rule's severity and threshold
SizeViolationOf(rule) ==
    /\ HasReturned
    /\ \E k \in 1..Len(outcome.violations) :
          /\ outcome.violations[k].rule_type = SIZE_VIOLATION
          /\ outcome.violations[k].severity = rule.severity
          /\ outcome.violations[k].metadata.max_area = rule.threshold

\* C4: for an enabled SIZE rule, a SIZE violation is produced if and only if
\* the area is strictly greater than the rule's threshold.  (Calls that a
\* junction feature made raise are left aside.)
C4_SizeViolationIffAreaExceeds ==
    (Evaluated /\ outcome.error # "AttributeError") =>
        \A i \in 1..Len(rules) :
            (rules[i].enabled /\ rules[i].rule_type = SIZE_VIOLATION) =>
                (SizeViolationOf(rules[i]) <=> Area10(detection) > rules[i].threshold)

\* C5: whenever evaluate_detection returns, every enabled LICENSE_MISSING
\* rule has produced a violation if the license id is None, empty or
\* whitespace only, and none has if it holds a non-blank character.
C5_LicenseMissingIffBlank ==
    HasReturned =>
        Len(OfType(outcome.violations, LICENSE_MISSING)) =
            IF detection.license_id.isNone \/ AllWhitespace(detection.license_id.val)
            THEN Len(EnabledOfType(rules, LICENSE_MISSING)) ELSE 0

\* a whitespace-only license id reported missing
C5_Witness ==
    /\ HasReturned
    /\ detection.license_id = Some(<<" ", "\t">>)
    /\ Len(OfType(outcome.violations, LICENSE_MISSING)) = 1

\* a license id is present: neither None nor the empty string
LicensePresent == ~detection.license_id.isNone /\ detection.license_id.val # <<>>

FirstCloser(threshold) ==
    CHOOSE k \in 1..Len(junctions_data.val) :
        /\ StrictlyCloser(junctions_data.val[k], threshold)
        /\ \A m \in 1..(k - 1) : ~StrictlyCloser(junctions_data.val[m], threshold)

NameOf(j) ==
    IF j.properties = "mapping" /\ j.hasName THEN j.name ELSE "Unknown Junction"

\* C7: whenever evaluate_detection returns, the JUNCTION_PROXIMITY violations
\* are those of the enabled JUNCTION_PROXIMITY rules for which some junction
\* is strictly closer than the threshold, in rule order, and each reports
\* the first such junction of the list with its distance; a junction at the
\* threshold distance or beyond never counts.
C7_FirstJunctionWithinThreshold ==
    HasReturned =>
        LET fired == SelectSeq(EnabledOfType(rules, JUNCTION_PROXIMITY),
                               LAMBDA r : ConditionHolds(r))
            got == OfType(outcome.violations, JUNCTION_PROXIMITY)
        IN  /\ Len(got) = Len(fired)
            /\ \A n \in 1..Len(fired) :
                 LET j == junctions_data.val[FirstCloser(fired[n].threshold)] IN
                 /\ got[n].severity = fired[n].severity
                 /\ got[n].metadata.junction_name = NameOf(j)
                 /\ got[n].metadata.distance =
                       _haversine_distance(point[1], point[2],
                                           j.coords[2].v, j.coords[1].v)

\* the junction 44 m away is reported although the next one is at 0 m
C7_Witness ==
    /\ HasReturned
    /\ junctions_data = Some(<<J_near, J_same>>)
    /\ \E k \in 1..Len(outcome.violations) :
          outcome.violations[k].metadata = [distance |-> 4448,
                                            junction_name |-> "Near Junction"]

\* a 55.6 m rule does not fire for the junction at 55.6 m
C7_AtThreshold ==
    /\ HasReturned
    /\ junctions_data = Some(<<J_edge>>)
    /\ \E i \in 1..Len(rules) :
          /\ rules[i].enabled
          /\ rules[i].rule_type = JUNCTION_PROXIMITY
          /\ rules[i].threshold = 556
    /\ OfType(outcome.violations, JUNCTION_PROXIMITY) = <<>>

\* C8: evaluate_detection never raises because of a junction feature.
C8_MalformedJunctionNeverRaises ==
    ~(outcome.status = "raised" /\ outcome.error = "AttributeError")


\* junction lists and callbacks to compare a call without them against
PresentJunctions == { Some(<<j>>) : j \in WellFormedJunctions } \cup { Some(<<J_far, J_near>>) }

StatusAndOthers(o, t) == <<o.status, o.error, Others(o.violations, t)>>

\* C9: without junction data no JUNCTION_PROXIMITY violation is produced,
\* without a registry callback no LICENSE_INVALID violation is produced and
\* nothing is called; and in both cases the call ends as it ends when the
\* data is supplied (it returns when that one returns), with the same
\* violations of every other type.
C9_AbsentDataSkipsRule ==
    Evaluated =>
        /\ ~Truthy(junctions_data) =>
              /\ OfType(outcome.violations, JUNCTION_PROXIMITY) = <<>>
              /\ \A jd \in PresentJunctions :
                    StatusAndOthers(outcome, JUNCTION_PROXIMITY) =
                    StatusAndOthers(evaluate_detection(rules, detection, point[1],
                                        point[2], jd, registry_check_func),
                                    JUNCTION_PROXIMITY)
        /\ registry_check_func = NoCallback =>
              /\ OfType(outcome.violations, LICENSE_INVALID) = <<>>
              /\ outcome.calls = <<>>
              /\ \A f \in RegistryCallbacks :
                    StatusAndOthers(outcome, LICENSE_INVALID) =
                    StatusAndOthers(evaluate_detection(rules, detection, point[1],
                                        point[2], junctions_data, f),
                                    LICENSE_INVALID)

\* a call with neither junctions nor callback returns the violations of the
\* size, license-missing and content rules
C9_Witness ==
    /\ HasReturned
    /\ junctions_data = None
    /\ registry_check_func = NoCallback
    /\ Len(rules) = 5
    /\ TypeAndSeverity(outcome.violations) =
          << <<SIZE_VIOLATION, 4>>, <<LICENSE_MISSING, 5>>, <<OBSCENE_CONTENT, 5>> >>

(***************************************************************************)
(* disable_rule in the sequence of calls                                   *)
(***************************************************************************)
\* the rules as they would be had disable_rule(t) never been called
WithoutDisable(t) ==
    [i \in 1..Len(rules) |->
        IF rules[i].rule_type = t
        THEN [rules[i] EXCEPT !.enabled = enabledAtAdd[i]] ELSE rules[i]]

SameOtherViolations(t) ==
    LET o == evaluate_detection(WithoutDisable(t), detection, point[1], point[2],
                                junctions_data, registry_check_func)
    IN  o.status = "returned" => Others(outcome.violations, t) = Others(o.violations, t)

ThreadCustomRules == { ViolationRule(SIZE_VIOLATION, 1000, 2, TRUE) }
ThreadDisabledTypes == { SIZE_VIOLATION, LICENSE_MISSING }
ThreadDetection == Detection(20, 6, None, None)

InitThreads == Init

Writing == wr.pc # "idle"
Evaluating == ev.pc # "idle"

\* a write that overlaps the running evaluation leaves the collection rs
Publish(rs) == snapshots' = IF Evaluating THEN snapshots \cup {rs} ELSE snapshots

ThreadAddCustomRule ==
    \E rule \in ThreadCustomRules :
        /\ ~Writing
        /\ Len(rules) < 5 + MaxCustom
        /\ rules' = add_custom_rule(rules, rule)
        /\ enabledAtAdd' = Append(enabledAtAdd, rule.enabled)
        /\ addedSince' = addedSince \cup {rule.rule_type}
        /\ Publish(rules')
        /\ UNCHANGED <<disableCalled, callVars, ev, wr, geo, utilVars>>

\* disable_rule is entered
DisableEnter ==
    \E rule_type \in ThreadDisabledTypes :
        /\ ~Writing
        /\ rule_type \notin disableCalled
        /\ wr' = [pc |-> "loop", rule_type |-> rule_type, i |-> 1, before |-> rules]
        /\ disableCalled' = disableCalled \cup {rule_type}
        /\ addedSince' = addedSince \ {rule_type}
        /\ Publish(disable_rule(rules, rule_type))
        /\ UNCHANGED <<rules, enabledAtAdd, callVars, ev, geo, utilVars>>

\* one iteration of "for rule in self.rules" of disable_rule
DisableStep ==
    /\ wr.pc = "loop"
    /\ wr.i <= Len(rules)
    /\ rules' = IF rules[wr.i].rule_type = wr.rule_type
                THEN [rules EXCEPT ![wr.i].enabled = FALSE] ELSE rules
    /\ wr' = [wr EXCEPT !.i = wr.i + 1]
    /\ UNCHANGED <<enabledAtAdd, disableCalled, addedSince, callVars, ev,
                   snapshots, geo, utilVars>>

\* the loop of disable_rule is exhausted
DisableReturn ==
    /\ wr.pc = "loop"
    /\ wr.i > Len(rules)
    /\ wr' = NoWrite
    /\ UNCHANGED <<engineVars, callVars, ev, snapshots, geo, utilVars>>

\* evaluate_detection is entered
EvaluateEnter ==
    /\ ~Evaluating
    /\ Idle
    /\ detection' = ThreadDetection
    /\ point' = TestPoint
    /\ junctions_data' = None
    /\ registry_check_func' = NoCallback
    /\ ev' = [pc |-> "loop", i |-> 1, violations |-> <<>>, calls |-> <<>>]
    /\ snapshots' = IF Writing
                    THEN {wr.before, disable_rule(wr.before, wr.rule_type)}
                    ELSE {rules}
    /\ UNCHANGED <<engineVars, outcome, wr, geo, utilVars>>

\* one iteration of "for rule in self.rules" of evaluate_detection
EvaluateStep ==
    /\ ev.pc = "loop"
    /\ ev.i <= Len(rules)
    /\ LET rule == rules[ev.i]
           c == CheckRule(rule, detection, point[1], point[2], junctions_data,
                          registry_check_func)
       IN  IF ~rule.enabled
           THEN /\ ev' = [ev EXCEPT !.i = ev.i + 1]
                /\ UNCHANGED outcome
           ELSE IF c.res.kind = "raise"
           THEN /\ ev' = NoEvaluation
                /\ outcome' = Raised(c.res.error, ev.calls \o c.calls)
           ELSE /\ ev' = [ev EXCEPT !.i = ev.i + 1,
                                    !.violations = IF c.res.kind = "violation"
                                                   THEN Append(ev.violations, c.res.v)
                                                   ELSE ev.violations,
                                    !.calls = ev.calls \o c.calls]
                /\ UNCHANGED outcome
    /\ UNCHANGED <<engineVars, detection, point, junctions_data,
                   registry_check_func, wr, snapshots, geo, utilVars>>

\* the loop of evaluate_detection is exhausted: return violations
EvaluateReturn ==
    /\ ev.pc = "loop"
    /\ ev.i > Len(rules)
    /\ outcome' = Returned(ev.violations, ev.calls)
    /\ ev' = NoEvaluation
    /\ UNCHANGED <<engineVars, detection, point, junctions_data,
                   registry_check_func, wr, snapshots, geo, utilVars>>

\* the caller is done with the result of the call
ThreadDiscard ==
    /\ ~Idle
    /\ detection' = NoDetection
    /\ point' = TestPoint
    /\ junctions_data' = None
    /\ registry_check_func' = NoCallback
    /\ outcome' = NotCalled
    /\ snapshots' = {}
    /\ UNCHANGED <<engineVars, ev, wr, geo, utilVars>>

NextThreads ==
    \/ ThreadAddCustomRule
    \/ DisableEnter
    \/ DisableStep
    \/ DisableReturn
    \/ EvaluateEnter
    \/ EvaluateStep
    \/ EvaluateReturn
    \/ ThreadDiscard

SpecThreads == InitThreads /\ [][NextThreads]_vars

\* C2: the violations an evaluation returns are those of the rule
\* collection as it was before or after one of the writes that ran during
\* the evaluation, never those of a collection no write has left.
C2_EvaluationSeesWholeWrites ==
    HasReturned =>
        \E rs \in snapshots :
            outcome.violations =
                evaluate_detection(rs, detection, point[1], point[2],
                                   junctions_data, registry_check_func).violations


(***************************************************************************)
(* SpecGeofence: BillboardGeofence.check_location_compliance.              *)
(* Zone polygons are lists of (lat, lon) tuples in 1e-4 degrees; areas and *)
(* size limits are in tenths of a square metre; buffers in centimetres.    *)
(* The formatted "reason" texts and the rounded actual_distance of the     *)
(* violations are not part of the records.                                 *)
(***************************************************************************)
GeofenceZone(zone_id, name, coordinates, max_billboards, size_limit_m2, prohibited, reason) ==
    [zone_id |-> zone_id, name |-> name, coordinates |-> coordinates,
     max_billboards |-> max_billboards, size_limit_m2 |-> size_limit_m2,
     prohibited |-> prohibited, reason |-> reason]

\* special_rules.get("reason", "Zone restriction")
ZoneRestriction == "Zone restriction"

restricted_zones ==
    << GeofenceZone("school_buffer_001",
                    "Government Model Senior Secondary School Buffer",
                    << <<303545, 763625>>, <<303555, 763625>>,
                       <<303555, 763635>>, <<303545, 763635>> >>,
                    0, 0, TRUE, "Educational institution protection"),
       GeofenceZone("hospital_buffer_001", "PGI Chandigarh Buffer Zone",
                    << <<303520, 763580>>, <<303530, 763580>>,
                       <<303530, 763590>>, <<303520, 763590>> >>,
                    0, 0, TRUE, "Healthcare facility protection"),
       GeofenceZone("heritage_buffer_001", "Rock Garden Heritage Site Buffer",
                    << <<303575, 763665>>, <<303585, 763665>>,
                       <<303585, 763675>>, <<303575, 763675>> >>,
                    2, 200, FALSE, "Heritage site preservation"),
       GeofenceZone("commercial_zone_001", "Sector 17 Commercial Plaza",
                    << <<303640, 763720>>, <<303660, 763720>>,
                       <<303660, 763740>>, <<303640, 763740>> >>,
                    10, 480, FALSE, ZoneRestriction) >>

\* x <= (y - p1y) * (p2x - p1x) / (p2y - p1y) + p1x, with p1y # p2y,
\* multiplied out by the divisor
AtOrLeftOfCrossing(x, y, p1x, p1y, p2x, p2y) ==
    IF p2y > p1y
    THEN (x - p1x) * (p2y - p1y) <= (y - p1y) * (p2x - p1x)
    ELSE (x - p1x) * (p2y - p1y) >= (y - p1y) * (p2x - p1x)

\* the edge from p1 to p2 toggles "inside"; a tuple of the polygon is
\* unpacked as (p_x, p_y) while the point is x, y = lon, lat
EdgeToggles(x, y, p1, p2) ==
    LET p1x == p1[1]
        p1y == p1[2]
        p2x == p2[1]
        p2y == p2[2]
    IN  /\ y > Min(p1y, p2y)
        /\ y <= Max(p1y, p2y)
        /\ x <= Max(p1x, p2x)
        /\ (p1x = p2x \/ AtOrLeftOfCrossing(x, y, p1x, p1y, p2x, p2y))

RECURSIVE RayCast(_, _, _, _, _)
RayCast(x, y, polygon, i, inside) ==
    LET n == Len(polygon)
    IN  IF i > n THEN inside
        ELSE LET p1 == polygon[i]
                 p2 == polygon[(i % n) + 1]
             IN  RayCast(x, y, polygon, i + 1,
                         IF EdgeToggles(x, y, p1, p2) THEN ~inside ELSE inside)

_point_in_polygon(lat, lon, polygon) == RayCast(lon, lat, polygon, 1, FALSE)

sensitive_locations ==
    << [name |-> "DAV Public School", lat |-> 303548, lon |-> 763628,
        buffer_m |-> 10000],
       [name |-> "Gurudwara Singh Sabha", lat |-> 303562, lon |-> 763645,
        buffer_m |-> 7500],
       [name |-> "Children's Park", lat |-> 303535, lon |-> 763605,
        buffer_m |-> 5000] >>

BufferViolation(location) ==
    [type |-> "buffer_violation", severity |-> 4, location |-> location.name,
     required_distance |-> location.buffer_m]

RECURSIVE BufferLoop(_, _, _)
BufferLoop(lat, lon, i) ==
    IF i > Len(sensitive_locations) THEN <<>>
    ELSE LET location == sensitive_locations[i]
             rest == BufferLoop(lat, lon, i + 1)
         IN  IF DistLess(lat, lon, location.lat, location.lon, location.buffer_m)
             THEN <<BufferViolation(location)>> \o rest
             ELSE rest

\* only the first sensitive location is looked at
_check_buffer_distances_first_only(lat, lon) ==
    LET location == sensitive_locations[1]
    IN  IF DistLess(lat, lon, location.lat, location.lon, location.buffer_m)
        THEN <<BufferViolation(location)>> ELSE <<>>

_check_buffer_distances(lat, lon) == BufferLoop(lat, lon, 1)

HasType(violations, type) ==
    \E i \in 1..Len(violations) : violations[i].type = type

\* f"Maximum allowed area: {zone_info.size_limit_m2}m2" for the limits of the
\* configured zones: 20.0, 48.0 and the integer 0
MaximumAllowedArea(size_limit_m2) ==
    IF size_limit_m2 = 200 THEN "Maximum allowed area: 20.0m2"
    ELSE IF size_limit_m2 = 480 THEN "Maximum allowed area: 48.0m2"
    ELSE "Maximum allowed area: 0m2"

\* zone_info is None or the matched zone
_generate_recommendations(violations, zone_info) ==
    (IF HasType(violations, "prohibited_zone")
     THEN << "Relocate billboard outside restricted zone",
             "Consider alternative advertising methods for this area" >>
     ELSE <<>>)
    \o (IF HasType(violations, "size_exceeds_zone_limit")
        THEN <<"Reduce billboard size to comply with zone limit">>
             \o (IF zone_info.isNone THEN <<>>
                 ELSE <<MaximumAllowedArea(zone_info.val.size_limit_m2)>>)
        ELSE <<>>)
    \o (IF HasType(violations, "buffer_violation")
        THEN << "Relocate billboard to maintain required buffer distances",
                "Check municipal guidelines for sensitive area buffers" >>
        ELSE <<>>)
    \o (IF violations = <<>>
        THEN << "Location complies with current regulations",
                "Ensure proper licensing and size compliance" >>
        ELSE <<>>)

\* zone_info.zone_id of a point no zone matches
NoZone == "None"

\* the loop takes the last zone of the list that matches
LastZoneOf(zones, lat, lon) ==
    LET matching == { k \in 1..Len(zones) :
                        _point_in_polygon(lat, lon, zones[k].coordinates) }
    IN  IF matching = {} THEN 0
        ELSE CHOOSE k \in matching : \A m \in matching : k >= m

\* index of the first zone of the list whose polygon matches, 0 when none
\* does: the loop over self.restricted_zones breaks at the first match
FirstZoneOf(zones, lat, lon) ==
    LET matching == { k \in 1..Len(zones) :
                        _point_in_polygon(lat, lon, zones[k].coordinates) }
    IN  IF matching = {} THEN 0
        ELSE CHOOSE k \in matching : \A m \in matching : k <= m

FirstZone(lat, lon) == FirstZoneOf(restricted_zones, lat, lon)

\* the status is set by the zone step alone
CheckZonesStatusOfZone(zones, lat, lon, billboard_area_m2) ==
    LET k == FirstZoneOf(zones, lat, lon)
        zone == zones[k]
        zone_violations ==
            IF k = 0 THEN <<>>
            ELSE IF zone.prohibited
            THEN << [type |-> "prohibited_zone", severity |-> 5,
                     zone |-> zone.name, details |-> zone.reason] >>
            ELSE IF billboard_area_m2 > zone.size_limit_m2
            THEN << [type |-> "size_exceeds_zone_limit", severity |-> 4,
                     zone |-> zone.name, limit |-> zone.size_limit_m2] >>
            ELSE <<>>
        violations == zone_violations \o _check_buffer_distances(lat, lon)
    IN  [called |-> TRUE, lat |-> lat, lon |-> lon,
         billboard_area_m2 |-> billboard_area_m2,
         compliance_status |-> IF zone_violations = <<>> THEN "compliant"
                               ELSE IF zone.prohibited THEN "prohibited"
                               ELSE "non_compliant",
         zone_id |-> IF k = 0 THEN NoZone ELSE zone.zone_id,
         violations |-> violations,
         recommendations |->
             _generate_recommendations(violations, IF k = 0 THEN None ELSE Some(zone))]

\* check_location_compliance of a BillboardGeofence whose restricted_zones
\* is the list zones
CheckZones(zones, lat, lon, billboard_area_m2) ==
    LET k == FirstZoneOf(zones, lat, lon)
        zone == zones[k]
        zone_violations ==
            IF k = 0 THEN <<>>
            ELSE IF zone.prohibited
            THEN << [type |-> "prohibited_zone", severity |-> 5,
                     zone |-> zone.name, details |-> zone.reason] >>
            ELSE IF billboard_area_m2 > zone.size_limit_m2
            THEN << [type |-> "size_exceeds_zone_limit", severity |-> 4,
                     zone |-> zone.name, limit |-> zone.size_limit_m2] >>
            ELSE <<>>
        zone_status ==
            IF k = 0 THEN "compliant"
            ELSE IF zone.prohibited THEN "prohibited"
            ELSE IF billboard_area_m2 > zone.size_limit_m2 THEN "non_compliant"
            ELSE "compliant"
        buffer_violations == _check_buffer_distances(lat, lon)
        violations == zone_violations \o buffer_violations
    IN  [called |-> TRUE, lat |-> lat, lon |-> lon,
         billboard_area_m2 |-> billboard_area_m2,
         compliance_status |-> IF buffer_violations # <<>> THEN "non_compliant"
                               ELSE zone_status,
         zone_id |-> IF k = 0 THEN NoZone ELSE zone.zone_id,
         violations |-> violations,
         recommendations |->
             _generate_recommendations(violations, IF k = 0 THEN None ELSE Some(zone))]

check_location_compliance(lat, lon, billboard_area_m2) ==
    CheckZones(restricted_zones, lat, lon, billboard_area_m2)

\* coordinates a caller passes, in either position: the zones and sensitive
\* locations of the city, and the same numbers with latitude and longitude
\* exchanged
Coordinates ==
    { 303525, 303548, 303550, 303562, 303580, 303600, 303650,
      763585, 763628, 763630, 763645, 763670, 763700, 763730 }
Areas == { 0, 200, 210, 480, 490 }

InitGeofence == Init

CheckLocationCompliance ==
    \E lat \in Coordinates, lon \in Coordinates, billboard_area_m2 \in Areas :
        /\ geo' = check_location_compliance(lat, lon, billboard_area_m2)
        /\ UNCHANGED <<engineVars, callVars, threadVars, utilVars>>

NextGeofence == CheckLocationCompliance

SpecGeofence == InitGeofence /\ [][NextGeofence]_vars

\* the point lies within the boundary of the zone, the vertices of the zone
\* read as the (lat, lon) pairs they are loaded as
LiesInside(lat, lon, zone) ==
    LET lats == { zone.coordinates[i][1] : i \in 1..Len(zone.coordinates) }
        lons == { zone.coordinates[i][2] : i \in 1..Len(zone.coordinates) }
    IN  /\ \E a \in lats : a < lat
        /\ \E a \in lats : lat < a
        /\ \E a \in lons : a < lon
        /\ \E a \in lons : lon < a

ProhibitedZoneViolations ==
    { i \in 1..Len(geo.violations) :
        /\ geo.violations[i].type = "prohibited_zone"
        /\ geo.violations[i].severity = 5 }

\* C10: a call for a point that lies inside a prohibited zone, no earlier
\* zone of the list containing it, returns compliance_status "prohibited"
\* and exactly one severity-5 prohibited_zone violation, for every area.
C10_PointInProhibitedZoneIsProhibited ==
    geo.called =>
        \A k \in 1..Len(restricted_zones) :
            ( /\ restricted_zones[k].prohibited
              /\ LiesInside(geo.lat, geo.lon, restricted_zones[k])
              /\ \A m \in 1..(k - 1) :
                    ~LiesInside(geo.lat, geo.lon, restricted_zones[m]) )
            => /\ geo.compliance_status = "prohibited"
               /\ Cardinality(ProhibitedZoneViolations) = 1


(***************************************************************************)
(* Buffers and zone size limits of check_location_compliance               *)
(***************************************************************************)
BufferViolationsOf(location) ==
    { i \in 1..Len(geo.violations) :
        /\ geo.violations[i].type = "buffer_violation"
        /\ geo.violations[i].location = location.name }

ZoneViolations == SelectSeq(geo.violations, LAMBDA v : v.type # "buffer_violation")

\* the zone-based violations the matched zone calls for
ZoneViolationTypes ==
    LET k == FirstZone(geo.lat, geo.lon)
    IN  IF k = 0 THEN <<>>
        ELSE IF restricted_zones[k].prohibited THEN <<"prohibited_zone">>
        ELSE IF geo.billboard_area_m2 > restricted_zones[k].size_limit_m2
        THEN <<"size_exceeds_zone_limit">>
        ELSE <<>>

ZoneOfPoint(lat, lon) ==
    LET containing == { k \in 1..Len(restricted_zones) :
                          LiesInside(lat, lon, restricted_zones[k]) }
    IN  IF containing = {} THEN 0
        ELSE CHOOSE k \in containing : \A m \in containing : k <= m

SizeLimitViolations ==
    { i \in 1..Len(geo.violations) :
        /\ geo.violations[i].type = "size_exceeds_zone_limit"
        /\ geo.violations[i].severity = 4 }

\* C12: for a point whose first zone is not prohibited, a severity-4
\* size_exceeds_zone_limit violation and the status "non_compliant" are
\* returned if and only if the area is strictly greater than the zone's
\* size limit; for a point in no zone the zone context is the unzoned
\* default and no zone-based violation is returned, whatever the area.
C12_ZoneSizeLimitIffAreaExceeds ==
    geo.called =>
        LET k == ZoneOfPoint(geo.lat, geo.lon)
        IN  /\ (k # 0 /\ ~restricted_zones[k].prohibited) =>
                  LET exceeds == geo.billboard_area_m2 > restricted_zones[k].size_limit_m2
                  IN  /\ Cardinality(SizeLimitViolations) = IF exceeds THEN 1 ELSE 0
                      /\ (geo.compliance_status = "non_compliant") <=> exceeds
            /\ k = 0 => (geo.zone_id = NoZone /\ ZoneViolations = <<>>)


(***************************************************************************)
(* SpecRegistry: BillboardGeofence.check_permitted_database.               *)
(* Here a location is a pair of positions in centimetres, north and east:  *)
(* CmPerLatUnit per 1e-4 degree of latitude and CmPerLonUnit per 1e-4      *)
(* degree of longitude, so that distances around the 50 m tolerance are    *)
(* exact.  License ids are sequences of characters.                        *)
(***************************************************************************)
NorthCm(lat) == CmPerLatUnit * lat
EastCm(lon) == CmPerLonUnit * lon

LicPrefix == <<"L","I","C","-","C","H","D","-","0","0">>
LIC_CHD_001 == LicPrefix \o <<"1">>
LIC_CHD_002 == LicPrefix \o <<"2">>
LIC_CHD_003 == LicPrefix \o <<"3">>
LIC_CHD_004 == LicPrefix \o <<"4">>

permitted_billboards ==
    << [license_id |-> LIC_CHD_001, lat |-> NorthCm(303555), lon |-> EastCm(763651),
        status |-> "active"],
       [license_id |-> LIC_CHD_002, lat |-> NorthCm(303542), lon |-> EastCm(763620),
        status |-> "active"],
       [license_id |-> LIC_CHD_003, lat |-> NorthCm(303598), lon |-> EastCm(763712),
        status |-> "active"],
       [license_id |-> LIC_CHD_004, lat |-> NorthCm(303521), lon |-> EastCm(763589),
        status |-> "expired"] >>

\* record["license_id"] == license_id
SameLicense(record_id, license_id) == record_id = license_id

\* index of the first matching record, 0 when there is none
MatchingRecord(license_id) ==
    LET matching == { k \in 1..Len(permitted_billboards) :
                        SameLicense(permitted_billboards[k].license_id, license_id) }
    IN  IF matching = {} THEN 0
        ELSE CHOOSE k \in matching : \A m \in matching : k <= m

\* _haversine_distance between two locations given in centimetres
DistanceCm(y1, x1, y2, x2) ==
    LET dy == Abs(y2 - y1)
        dx == Abs(x2 - x1)
    IN  IF Max(dy, dx) > 30000 THEN Max(dy, dx)
        ELSE ISqrt(dy * dy + dx * dx)

\* distance_m < 50.0
WithinToleranceStrict(y1, x1, y2, x2) ==
    LET dy == Abs(y2 - y1)
        dx == Abs(x2 - x1)
    IN  dy < 5000 /\ dx < 5000 /\ dy * dy + dx * dx < 5000 * 5000

\* distance_m <= 50.0
WithinTolerance(y1, x1, y2, x2) ==
    LET dy == Abs(y2 - y1)
        dx == Abs(x2 - x1)
    IN  dy <= 5000 /\ dx <= 5000 /\ dy * dy + dx * dx <= 5000 * 5000

\* f"{distance_m:.1f}" and round(distance_m, 1): a number of decimetres
OneDecimal(cm) == (cm + 5) \div 10

\* an expired license is reported the same with and without a mismatch
_get_database_reason_expired_first(license_valid, location_match, distance_cm) ==
    IF ~license_valid
    THEN [format |-> "License has expired", distance_m |-> -1]
    ELSE IF ~location_match
    THEN [format |-> "Location mismatch: {distance_m:.1f}m from registered location",
          distance_m |-> OneDecimal(distance_cm)]
    ELSE [format |-> "License valid and location matches registered coordinates",
          distance_m |-> -1]

\* the message as its format string and the distance formatted into it
\* (-1 when the format has no distance)
_get_database_reason(license_valid, location_match, distance_cm) ==
    IF ~license_valid /\ ~location_match
    THEN [format |-> "License expired and location mismatch ({distance_m:.1f}m from registered)",
          distance_m |-> OneDecimal(distance_cm)]
    ELSE IF ~license_valid
    THEN [format |-> "License has expired", distance_m |-> -1]
    ELSE IF ~location_match
    THEN [format |-> "Location mismatch: {distance_m:.1f}m from registered location",
          distance_m |-> OneDecimal(distance_cm)]
    ELSE [format |-> "License valid and location matches registered coordinates",
          distance_m |-> -1]

check_permitted_database(license_id, lat, lon) ==
    LET k == MatchingRecord(license_id)
        matching_record == permitted_billboards[k]
        distance_cm == DistanceCm(lat, lon, matching_record.lat, matching_record.lon)
        location_match == WithinTolerance(lat, lon, matching_record.lat,
                                          matching_record.lon)
        license_valid == matching_record.status = "active"
    IN  IF k = 0
        THEN [called |-> TRUE, license_id |-> license_id, lat |-> lat, lon |-> lon,
              database_status |-> "not_found", license_valid |-> FALSE,
              location_match |-> FALSE,
              reason |-> [format |-> "License {license_id} not found in municipal database",
                          distance_m |-> -1]]
        ELSE [called |-> TRUE, license_id |-> license_id, lat |-> lat, lon |-> lon,
              database_status |-> "found", license_valid |-> license_valid,
              location_match |-> location_match,
              distance_from_registered |-> OneDecimal(distance_cm),
              registered_location |-> <<matching_record.lat, matching_record.lon>>,
              license_status |-> matching_record.status,
              reason |-> _get_database_reason(license_valid, location_match,
                                              distance_cm)]

\* license ids callers ask for: the registered ones, and near misses
RegistryLicenseIds ==
    { LIC_CHD_001, LIC_CHD_002, LIC_CHD_003, LIC_CHD_004,
      lower(LIC_CHD_001), LIC_CHD_001 \o <<" ">>, LicPrefix, LicPrefix \o <<"9">>, <<>> }

\* offsets (cm) from a registered location, north and east
RegistryOffsets == { -5001, -5000, 0, 3000, 4000, 4001, 4999, 5000, 5001, 20000 }

\* registered locations the offsets are taken from
RegistryOrigins == { 1, 4 }

InitRegistry == Init

CheckPermittedDatabase ==
    \E license_id \in RegistryLicenseIds, o \in RegistryOrigins,
       north \in RegistryOffsets, east \in RegistryOffsets :
        /\ ~db.called
        /\ db' = check_permitted_database(license_id,
                                          permitted_billboards[o].lat + north,
                                          permitted_billboards[o].lon + east)
        /\ UNCHANGED <<engineVars, callVars, threadVars, geo, validation, estimate, pip, summary, authVars>>

NextRegistry == CheckPermittedDatabase

SpecRegistry == InitRegistry /\ [][NextRegistry]_vars


\* the records of the registry whose license id is exactly the one asked for
ExactRecords ==
    { k \in 1..Len(permitted_billboards) :
        /\ Len(permitted_billboards[k].license_id) = Len(db.license_id)
        /\ \A i \in 1..Len(db.license_id) :
              permitted_billboards[k].license_id[i] = db.license_id[i] }

\* the location asked about is at most 50 m from the registered one
AtMostFiftyMetres(record) ==
    LET dy == Abs(record.lat - db.lat)
        dx == Abs(record.lon - db.lon)
    IN  /\ Max(dy, dx) <= 5000
        /\ dy * dy + dx * dx <= 25000000

\* C14: without a record of exactly that license id the result is
\* "not_found" with license_valid and location_match false; with one,
\* location_match is true if and only if the distance to the registered
\* coordinates is at most 50 m, and license_valid if and only if the record
\* is active, each whatever the other is.
C14_RegistryMatchAndTolerance ==
    db.called =>
        IF ExactRecords = {}
        THEN /\ db.database_status = "not_found"
             /\ ~db.license_valid
             /\ ~db.location_match
        ELSE \E k \in ExactRecords :
                /\ db.database_status = "found"
                /\ db.location_match <=> AtMostFiftyMetres(permitted_billboards[k])
                /\ db.license_valid <=> (permitted_billboards[k].status = "active")

\* exactly 50 m (30 m north, 40 m east) from the registered location of an
\* expired license: the location matches, the license is not valid
C14_Witness ==
    /\ db.called
    /\ db.license_id = LIC_CHD_004
    /\ db.lat = permitted_billboards[4].lat + 3000
    /\ db.lon = permitted_billboards[4].lon + 4000
    /\ db.location_match
    /\ ~db.license_valid


\* the four forms of the message for a found record
ReasonForm(license_valid, location_match) ==
    CASE ~license_valid /\ ~location_match -> "expired and mismatched"
      [] ~license_valid /\ location_match -> "expired only"
      [] license_valid /\ ~location_match -> "mismatched only"
      [] license_valid /\ location_match -> "valid match"

FormOfMessage(reason) ==
    CASE reason.format = "License expired and location mismatch ({distance_m:.1f}m from registered)"
            -> "expired and mismatched"
      [] reason.format = "License has expired" -> "expired only"
      [] reason.format = "Location mismatch: {distance_m:.1f}m from registered location"
            -> "mismatched only"
      [] reason.format = "License valid and location matches registered coordinates"
            -> "valid match"
      [] OTHER -> "other"

\* distances (cm) a message may carry
MessageDistances == { 0, 4999, 5000, 5001, 22240 }

\* C15: the reason of a found record has the form its pair (license_valid,
\* location_match) determines, and no other pair yields the same message,
\* whatever the distance.
C15_ReasonFormPerCombination ==
    (db.called /\ db.database_status = "found") =>
        /\ FormOfMessage(db.reason) = ReasonForm(db.license_valid, db.location_match)
        /\ \A v \in BOOLEAN, m \in BOOLEAN, d \in MessageDistances :
              (v # db.license_valid \/ m # db.location_match)
                  => _get_database_reason(v, m, d) # db.reason

\* an expired license more than 50 m from its registered location
C15_Witness ==
    /\ db.called
    /\ db.database_status = "found"
    /\ ~db.license_valid
    /\ ~db.location_match
    /\ FormOfMessage(db.reason) = "expired and mismatched"


(***************************************************************************)
(* SpecValidate: validate_billboard_location, on a geofence of its own.    *)
(* lat and lon are in 1e-4 degrees; license_id is None or a string.        *)
(***************************************************************************)
\* database_result = None
NoDatabaseResult == NoCall

DatabaseVerification(lat, lon, license_id) ==
    IF Truthy(license_id)
    THEN check_permitted_database(license_id.val, NorthCm(lat), EastCm(lon))
    ELSE NoDatabaseResult

\* the database result is left out of the overall status
validate_billboard_location_location_only(lat, lon, license_id, area_m2) ==
    LET location_result == check_location_compliance(lat, lon, area_m2)
    IN  [called |-> TRUE, lat |-> lat, lon |-> lon, license_id |-> license_id,
         area_m2 |-> area_m2,
         location_compliance |-> location_result,
         database_verification |-> DatabaseVerification(lat, lon, license_id),
         overall_status |-> IF location_result.compliance_status = "compliant"
                            THEN "compliant" ELSE "non_compliant"]

validate_billboard_location(lat, lon, license_id, area_m2) ==
    LET location_result == check_location_compliance(lat, lon, area_m2)
        database_result == DatabaseVerification(lat, lon, license_id)
    IN  [called |-> TRUE, lat |-> lat, lon |-> lon, license_id |-> license_id,
         area_m2 |-> area_m2,
         location_compliance |-> location_result,
         database_verification |-> database_result,
         overall_status |->
            IF /\ location_result.compliance_status = "compliant"
               /\ (database_result = NoDatabaseResult \/ database_result.license_valid)
            THEN "compliant" ELSE "non_compliant"]

\* (lat, lon) of the calls: a registered location, an open location, a
\* sensitive site, and locations the zone test matches
ValidatedPoints ==
    { <<303555, 763651>>, <<303600, 763700>>, <<303548, 763628>>,
      <<763585, 303525>>, <<763670, 303580>>, <<763730, 303650>> }
ValidatedAreas == { 0, 210, 490 }
ValidatedLicenseIds ==
    { None, Some(<<>>), Some(<<" ">>), Some(LIC_CHD_001), Some(LIC_CHD_002),
      Some(LIC_CHD_004), Some(lower(LIC_CHD_001)) }

InitValidate == Init

ValidateBillboardLocation ==
    \E p \in ValidatedPoints, license_id \in ValidatedLicenseIds,
       area_m2 \in ValidatedAreas :
        /\ ~validation.called
        /\ validation' = validate_billboard_location(p[1], p[2], license_id, area_m2)
        /\ UNCHANGED <<engineVars, callVars, threadVars, geo, db, estimate, pip, summary, authVars>>

NextValidate == ValidateBillboardLocation

SpecValidate == InitValidate /\ [][NextValidate]_vars

\* a license id was supplied: not None and not the empty string
LicenseSupplied(license_id) == ~license_id.isNone /\ Len(license_id.val) > 0

\* the registry holds the license with status active
RegistryReportsValid(license_id) ==
    \E k \in 1..Len(permitted_billboards) :
        /\ permitted_billboards[k].license_id = license_id.val
        /\ permitted_billboards[k].status = "active"

\* C13: overall_status is "compliant" if and only if the location
\* compliance status is "compliant" and either no license id was supplied
\* or the registry reports the license valid; otherwise it is
\* "non_compliant".
C13_OverallStatus ==
    validation.called =>
        LET location_status ==
                check_location_compliance(validation.lat, validation.lon,
                                          validation.area_m2).compliance_status
            ok == /\ location_status = "compliant"
                  /\ \/ ~LicenseSupplied(validation.license_id)
                     \/ RegistryReportsValid(validation.license_id)
        IN  validation.overall_status = IF ok THEN "compliant" ELSE "non_compliant"

\* a compliant location with a supplied license the registry does not hold
C13_Witness ==
    /\ validation.called
    /\ validation.location_compliance.compliance_status = "compliant"
    /\ validation.license_id = Some(lower(LIC_CHD_001))
    /\ validation.database_verification.database_status = "not_found"
    /\ validation.overall_status = "non_compliant"

\* a prohibited location with a valid license
C13_ProhibitedWithValidLicense ==
    /\ validation.called
    /\ validation.location_compliance.compliance_status = "prohibited"
    /\ validation.database_verification.called
    /\ validation.database_verification.license_valid
    /\ validation.overall_status = "non_compliant"


(***************************************************************************)
(* Obscene content and confidences of evaluate_detection                   *)
(***************************************************************************)
\* the keyword occurs in the text as a substring, letter case ignored
OccursIn(kw, text) ==
    \E i \in 1..(Len(text) - Len(kw) + 1) :
        \A k \in 1..Len(kw) : lowerChar(text[i + k - 1]) = lowerChar(kw[k])

MatchedKeywords(text) ==
    IF text.isNone THEN {}
    ELSE { obscene_keywords[j] : j \in { n \in 1..Len(obscene_keywords) :
                                           OccursIn(obscene_keywords[n], text.val) } }

\* C16: whenever evaluate_detection returns, every enabled OBSCENE_CONTENT
\* rule has produced a violation if at least one keyword of the list occurs
\* in the OCR text, letter case ignored, and none has otherwise (absent and
\* empty text included); each such violation lists every matched keyword,
\* once, and its confidence is min(0.95, 0.3 x their number).
C16_ObsceneContentKeywords ==
    HasReturned =>
        LET matched == MatchedKeywords(detection.ocr_text)
            produced == OfType(outcome.violations, OBSCENE_CONTENT)
        IN  /\ Len(produced) = IF matched # {}
                               THEN Len(EnabledOfType(rules, OBSCENE_CONTENT)) ELSE 0
            /\ \A i \in 1..Len(produced) :
                  LET keywords == produced[i].metadata.keywords
                  IN  /\ { keywords[k] : k \in 1..Len(keywords) } = matched
                      /\ Len(keywords) = Cardinality(matched)
                      /\ produced[i].confidence = Min(950, 300 * Cardinality(matched))

\* a text with four of the keywords, in mixed case: the confidence is 0.95
C16_Witness ==
    /\ HasReturned
    /\ Cardinality(MatchedKeywords(detection.ocr_text)) = 4
    /\ \E i \in 1..Len(outcome.violations) :
          /\ outcome.violations[i].rule_type = OBSCENE_CONTENT
          /\ outcome.violations[i].confidence = 950
          /\ Len(outcome.violations[i].metadata.keywords) = 4


\* C17: every Violation evaluate_detection returns has a confidence in
\* [0, 1] (0..1000 thousandths), whatever thresholds the rules carry.
C17_ConfidenceWithinUnitInterval ==
    HasReturned =>
        \A i \in 1..Len(outcome.violations) :
            /\ outcome.violations[i].confidence >= 0
            /\ outcome.violations[i].confidence <= 1000


(***************************************************************************)
(* SpecEstimate: BillboardSizeEstimator.estimate_size_from_bbox with the   *)
(* default CameraParams (focal length 26.0 mm, sensor width 5.76 mm, image *)
(* width 1920 px).  Pixels are integers, distances centimetres, widths and *)
(* heights millimetres, areas square centimetres, confidences thousandths, *)
(* margins of error tenths of a metre, each rounded down to its unit.      *)
(* tan(horizontal_fov / 2) is                                              *)
(* 5.76 / 52 exactly; the tangent of the angular height is taken to first  *)
(* order in the angle (relative error below 0.2 percent), which leaves     *)
(* 3.5 * 1920 * 26 / 5.76 m = 3033333 cm divided by the height in pixels.  *)
(***************************************************************************)
Clamp(lo, hi, v) == Max(lo, Min(hi, v))

\* assumed_height_m / (2 * math.tan(angular_height / 2)), clamped to 5..200 m
_estimate_distance_from_height(bbox_height_px, image_height) ==
    IF bbox_height_px = 0
    THEN [raised |-> TRUE, error |-> "ZeroDivisionError", distance_m |-> 0]
    ELSE [raised |-> FALSE, error |-> "none",
          distance_m |-> IF bbox_height_px > 0
                         THEN Clamp(500, 20000, 3033333 \div bbox_height_px)
                         ELSE 500]

\* the size_accuracy_table row of a distance: mean_error + std_dev, samples
AccuracyData(distance_m) ==
    IF 1000 <= distance_m /\ distance_m < 2000
    THEN [margin_of_error |-> 14, samples |-> 156]
    ELSE IF 2000 <= distance_m /\ distance_m < 5000
    THEN [margin_of_error |-> 21, samples |-> 234]
    ELSE IF 5000 <= distance_m /\ distance_m < 10000
    THEN [margin_of_error |-> 35, samples |-> 89]
    ELSE [margin_of_error |-> 50, samples |-> 10]

\* the product of the three factors returned without max(0.1, min(0.95, .))
_calculate_confidence_unclamped(distance_m, width_px, height_px) ==
    LET accuracy_data == AccuracyData(distance_m)
        distance_factor == Max(300, 1000 - (distance_m - 1000) \div 10)
        size_factor == Min(1000, (width_px * height_px) \div 10)
        sample_factor == Min(1000, accuracy_data.samples * 10)
    IN  [confidence |-> (((distance_factor * size_factor) \div 1000) * sample_factor) \div 1000,
         margin_of_error |-> accuracy_data.margin_of_error]

_calculate_confidence(distance_m, width_px, height_px) ==
    LET accuracy_data == AccuracyData(distance_m)
        distance_factor == Max(300, 1000 - (distance_m - 1000) \div 10)
        size_factor == Min(1000, (width_px * height_px) \div 10)
        sample_factor == Min(1000, accuracy_data.samples * 10)
        confidence == (((distance_factor * size_factor) \div 1000) * sample_factor) \div 1000
    IN  [confidence |-> Clamp(100, 950, confidence),
         margin_of_error |-> accuracy_data.margin_of_error]

\* bbox_px / pixels_per_meter, in millimetres
MetresOf(bbox_px, distance_m, image_width) ==
    (((distance_m * 576) \div 260) * bbox_px) \div image_width

estimate_size_from_bbox(bbox, image_width, image_height, assumed_distance_m) ==
    LET bbox_width_px == bbox[3] - bbox[1]
        bbox_height_px == bbox[4] - bbox[2]
        estimated == _estimate_distance_from_height(bbox_height_px, image_height)
        distance_m == IF assumed_distance_m.isNone THEN estimated.distance_m
                      ELSE assumed_distance_m.val
        width_m == MetresOf(bbox_width_px, distance_m, image_width)
        height_m == MetresOf(bbox_height_px, distance_m, image_width)
        c == _calculate_confidence(distance_m, bbox_width_px, bbox_height_px)
        call == [called |-> TRUE, bbox |-> bbox, image_width |-> image_width,
                 image_height |-> image_height,
                 assumed_distance_m |-> assumed_distance_m]
    IN  IF assumed_distance_m.isNone /\ estimated.raised
        THEN call @@ [status |-> "raised", error |-> estimated.error]
        ELSE IF distance_m = 0
        THEN call @@ [status |-> "raised", error |-> "ZeroDivisionError"]
        ELSE call @@ [status |-> "returned", error |-> "none",
                      width_m |-> width_m, height_m |-> height_m,
                      area_m2 |-> (width_m * height_m) \div 100,
                      distance_m |-> distance_m,
                      confidence |-> c.confidence,
                      margin_of_error |-> c.margin_of_error,
                      method |-> "camera_assumptions"]

\* a distance hint: None or a number of centimetres
NoHint == [isNone |-> TRUE, val |-> 0]
Hint(cm) == [isNone |-> FALSE, val |-> cm]

BoxXs == { 0, 10, 50, 640 }
BoxYs == { 0, 10, 50, 480 }
BoundingBoxes ==
    { <<x1, y1, x2, y2>> : x1 \in BoxXs, y1 \in BoxYs, x2 \in BoxXs, y2 \in BoxYs }
ImageSizes == { <<1920, 1080>>, <<640, 480>> }
DistanceHints == { NoHint, Hint(2500), Hint(400) }

InitEstimate == Init

EstimateSizeFromBbox ==
    \E bbox \in BoundingBoxes, size \in ImageSizes, hint \in DistanceHints :
        /\ ~estimate.called
        /\ bbox[1] <= bbox[3]
        /\ bbox[2] <= bbox[4]
        /\ estimate' = estimate_size_from_bbox(bbox, size[1], size[2], hint)
        /\ UNCHANGED <<engineVars, callVars, threadVars, geo, db, validation, pip, summary, authVars>>

NextEstimate == EstimateSizeFromBbox

SpecEstimate == InitEstimate /\ [][NextEstimate]_vars

ZeroAreaBox(bbox) == bbox[1] = bbox[3] \/ bbox[2] = bbox[4]

\* C18: for a bounding box of zero width, zero height or both, with or
\* without a distance hint, estimate_size_from_bbox returns, and the area of
\* the estimate is 0.
C18_ZeroAreaBoxNeverRaises ==
    (estimate.called /\ ZeroAreaBox(estimate.bbox)) =>
        /\ estimate.status = "returned"
        /\ estimate.area_m2 = 0


(***************************************************************************)
(* SpecPolygon: BillboardGeofence._point_in_polygon on polygons of 0 to    *)
(* MaxVertices vertices, each a (lat, lon) tuple with integer coordinates. *)
(***************************************************************************)
MaxVertices == 4

\* what a call does: p1x, p1y = polygon[0] raises IndexError on an empty
\* list, otherwise the ray casting loop returns a boolean
point_in_polygon_outcome(lat, lon, polygon) ==
    IF Len(polygon) = 0
    THEN [status |-> "raised", error |-> "IndexError", inside |-> FALSE]
    ELSE [status |-> "returned", error |-> "none",
          inside |-> _point_in_polygon(lat, lon, polygon)]

VertexLats == { 0, 2 }
VertexLons == { 10, 12, 14 }
Vertices == { <<a, b>> : a \in VertexLats, b \in VertexLons }
Polygons == SeqsUpTo(Vertices, MaxVertices)
PointCoordinates == { 0, 1, 3, 10, 11, 13, 15 }

InitPolygon == Init

PointInPolygon ==
    /\ ~pip.called
    /\ \E polygon \in Polygons, lat \in PointCoordinates, lon \in PointCoordinates :
        /\ pip' = [called |-> TRUE, lat |-> lat, lon |-> lon, polygon |-> polygon]
                  @@ point_in_polygon_outcome(lat, lon, polygon)
        /\ UNCHANGED <<engineVars, callVars, threadVars, geo, db, validation, estimate, summary, authVars>>

NextPolygon == PointInPolygon

SpecPolygon == InitPolygon /\ [][NextPolygon]_vars

\* C19: for a polygon of fewer than 3 vertices the test fails with
\* InvalidGeometry; it returns no boolean and fails with no other error.
C19_FewVerticesInvalidGeometry ==
    (pip.called /\ Len(pip.polygon) < 3) =>
        /\ pip.status = "raised"
        /\ pip.error = "InvalidGeometry"

Reverse(seq) == [i \in 1..Len(seq) |-> seq[Len(seq) + 1 - i]]

\* the point (lat, lon) lies on the segment from vertex a to vertex b
OnSegment(lat, lon, a, b) ==
    /\ (b[1] - a[1]) * (lon - a[2]) = (b[2] - a[2]) * (lat - a[1])
    /\ Min(a[1], b[1]) <= lat /\ lat <= Max(a[1], b[1])
    /\ Min(a[2], b[2]) <= lon /\ lon <= Max(a[2], b[2])

OnBoundary(lat, lon, polygon) ==
    \E i \in 1..Len(polygon) :
        OnSegment(lat, lon, polygon[i], polygon[(i % Len(polygon)) + 1])

\* the point lies outside the smallest rectangle of latitudes and
\* longitudes that holds every vertex
OutsideBoundingRectangle(lat, lon, polygon) ==
    \/ \A i \in 1..Len(polygon) : lat < polygon[i][1]
    \/ \A i \in 1..Len(polygon) : lat > polygon[i][1]
    \/ \A i \in 1..Len(polygon) : lon < polygon[i][2]
    \/ \A i \in 1..Len(polygon) : lon > polygon[i][2]

\* C20: for a polygon of at least 3 vertices and a point on none of its
\* edges and vertices, the result is the same for the reversed vertex list,
\* and it is false when the point is outside the bounding rectangle.
C20_ReversalAndBoundingRectangle ==
    (pip.called /\ Len(pip.polygon) >= 3
        /\ ~OnBoundary(pip.lat, pip.lon, pip.polygon)) =>
        /\ pip.status = "returned"
        /\ point_in_polygon_outcome(pip.lat, pip.lon, Reverse(pip.polygon)).inside
              = pip.inside
        /\ OutsideBoundingRectangle(pip.lat, pip.lon, pip.polygon) => ~pip.inside

(***************************************************************************)
(* SpecConfidence: both estimators of BillboardSizeEstimator, over boxes   *)
(* of every pixel size and distances inside and outside the calibrated     *)
(* ranges.  The depth map is uniform: every pixel holds the same depth.    *)
(***************************************************************************)

\* np.median of the region of interest: nan for an empty region
Median(bbox, depth) ==
    IF bbox[1] >= bbox[3] \/ bbox[2] >= bbox[4]
    THEN [nan |-> TRUE, val |-> 0]
    ELSE [nan |-> FALSE, val |-> depth]

\* _calculate_confidence for a distance of nan: no table row holds it,
\* max(0.3, nan) is 0.3
NanConfidence(width_px, height_px) ==
    LET size_factor == Min(1000, (width_px * height_px) \div 10)
        confidence == (((300 * size_factor) \div 1000) * 100) \div 1000
    IN  [confidence |-> Clamp(100, 950, confidence), margin_of_error |-> 50]

\* bbox_px * distance_m / fx with fx = 26.0 * 1920 / 5.76, in millimetres
DepthMetresOf(bbox_px, distance_m) == (bbox_px * distance_m * 3) \div 2600

estimate_size_with_depth(bbox, depth) ==
    LET median_depth == Median(bbox, depth)
        distance_m == median_depth.val
        bbox_width_px == bbox[3] - bbox[1]
        bbox_height_px == bbox[4] - bbox[2]
        width_m == DepthMetresOf(bbox_width_px, distance_m)
        height_m == DepthMetresOf(bbox_height_px, distance_m)
        c == IF median_depth.nan THEN NanConfidence(bbox_width_px, bbox_height_px)
             ELSE _calculate_confidence(distance_m, bbox_width_px, bbox_height_px)
    IN  [called |-> TRUE, bbox |-> bbox, depth |-> depth,
         status |-> "returned", error |-> "none",
         width_m |-> width_m, height_m |-> height_m,
         area_m2 |-> (width_m * height_m) \div 100,
         distance_m |-> distance_m, distance_nan |-> median_depth.nan,
         confidence |-> Min(950, (c.confidence * 12) \div 10),
         margin_of_error |-> (c.margin_of_error * 7) \div 10,
         method |-> "depth_estimation"]

ConfidenceHints == { NoHint, Hint(-1000), Hint(1), Hint(400), Hint(1000), Hint(2500), Hint(7000), Hint(15000) }
Depths == { -1000, 0, 1, 400, 1000, 2500, 7000, 15000 }

InitConfidence == Init

ConfidenceFromBbox ==
    /\ ~estimate.called
    /\ \E bbox \in BoundingBoxes, size \in ImageSizes, hint \in ConfidenceHints :
        /\ bbox[1] <= bbox[3]
        /\ bbox[2] <= bbox[4]
        /\ estimate' = estimate_size_from_bbox(bbox, size[1], size[2], hint)
        /\ UNCHANGED <<engineVars, callVars, threadVars, geo, db, validation, pip, summary, authVars>>

EstimateSizeWithDepth ==
    /\ ~estimate.called
    /\ \E bbox \in BoundingBoxes, depth \in Depths :
        /\ bbox[1] <= bbox[3]
        /\ bbox[2] <= bbox[4]
        /\ estimate' = estimate_size_with_depth(bbox, depth)
        /\ UNCHANGED <<engineVars, callVars, threadVars, geo, db, validation, pip, summary, authVars>>

NextConfidence == ConfidenceFromBbox \/ EstimateSizeWithDepth

SpecConfidence == InitConfidence /\ [][NextConfidence]_vars

\* C21: every SizeEstimate returned by estimate_size_from_bbox or
\* estimate_size_with_depth has a confidence from 0.1 to 0.95, for every
\* distance and every pixel size of the box.
C21_ConfidenceClamped ==
    (estimate.called /\ estimate.status = "returned") =>
        (100 <= estimate.confidence /\ estimate.confidence <= 950)

\* both estimators return, one with a product of factors below 0.1 and one
\* with a product above 0.95
C21_Witness ==
    /\ estimate.called
    /\ estimate.status = "returned"
    /\ estimate.method = "depth_estimation"
    /\ estimate.confidence = 950

(***************************************************************************)
(* The frame of add_custom_rule, under Spec                                *)
(***************************************************************************)

\* C22: add_custom_rule makes the collection one rule longer, the new rule
\* is the last one in evaluation order, and every rule that was there keeps
\* its place, type, threshold, severity and enabled flag.
C22_AddCustomRuleAppends ==
    [][AddCustomRule =>
        /\ Len(rules') = Len(rules) + 1
        /\ rules'[Len(rules')] \in CustomRules
        /\ \A i \in 1..Len(rules) : rules'[i] = rules[i]]_vars

\* a rule was added to a collection in which an earlier rule was disabled
C22_Witness ==
    /\ Len(rules) = 6
    /\ ~rules[1].enabled
    /\ rules[6].rule_type = SIZE_VIOLATION
    /\ rules[6].enabled

(***************************************************************************)
(* SpecSummary: the engine of Spec with get_rule_summary among its calls   *)
(***************************************************************************)

\* a summary that counts every rule as active
get_rule_summary_all_active(rs) ==
    [called |-> TRUE,
     total_rules |-> Len(rs),
     active_rules |-> Len(rs),
     rules |-> [i \in 1..Len(rs) |->
                  [type |-> rs[i].rule_type, threshold |-> rs[i].threshold,
                   severity |-> rs[i].severity, enabled |-> rs[i].enabled]]]

get_rule_summary(rs) ==
    [called |-> TRUE,
     total_rules |-> Len(rs),
     active_rules |-> Cardinality({ i \in 1..Len(rs) : rs[i].enabled }),
     rules |-> [i \in 1..Len(rs) |->
                  [type |-> rs[i].rule_type, threshold |-> rs[i].threshold,
                   severity |-> rs[i].severity, enabled |-> rs[i].enabled]]]

GetRuleSummary ==
    /\ Idle
    /\ ~summary.called
    /\ summary' = get_rule_summary(rules)
    /\ UNCHANGED <<engineVars, callVars, threadVars, geo, db, validation, estimate, pip, authVars>>

\* the caller is done with the summary
DiscardSummary ==
    /\ summary.called
    /\ summary' = NoCall
    /\ UNCHANGED <<engineVars, callVars, threadVars, geo, db, validation, estimate, pip, authVars>>

InitSummary == Init

NextSummary ==
    \/ ~summary.called /\ AddCustomRule
    \/ ~summary.called /\ DisableRule
    \/ ~summary.called /\ EvaluateDetection
    \/ ~summary.called /\ Discard
    \/ GetRuleSummary
    \/ DiscardSummary

SpecSummary == InitSummary /\ [][NextSummary]_vars

\* C23: after any add_custom_rule and disable_rule calls, get_rule_summary
\* reports the number of rules as total_rules, the number of enabled rules
\* as active_rules (never more than total_rules) and one entry per rule in
\* insertion order; get_rule_summary and evaluate_detection leave the rule
\* collection as it was.
C23_SummaryCountsAndFrame ==
    [][/\ GetRuleSummary =>
            /\ rules' = rules
            /\ summary'.total_rules = Len(rules)
            /\ summary'.active_rules = Cardinality({ i \in 1..Len(rules) : rules[i].enabled })
            /\ summary'.active_rules <= summary'.total_rules
            /\ Len(summary'.rules) = Len(rules)
            /\ \A i \in 1..Len(rules) :
                  /\ summary'.rules[i].type = rules[i].rule_type
                  /\ summary'.rules[i].threshold = rules[i].threshold
                  /\ summary'.rules[i].severity = rules[i].severity
                  /\ summary'.rules[i].enabled = rules[i].enabled
       /\ EvaluateDetection => rules' = rules]_vars

\* a summary of a collection with added rules and disabled rules
C23_Witness ==
    /\ summary.called
    /\ summary.total_rules = 5 + MaxCustom
    /\ summary.active_rules < 5
    /\ summary.active_rules > 0

(***************************************************************************)
(* SpecZones: check_location_compliance of a BillboardGeofence whose       *)
(* restricted_zones holds zones that overlap                               *)
(***************************************************************************)
Rectangle(lat1, lat2, lon1, lon2) ==
    << <<lat1, lon1>>, <<lat2, lon1>>, <<lat2, lon2>>, <<lat1, lon2>> >>

Z_prohibited ==
    GeofenceZone("zone_a", "Zone A", Rectangle(0, 4, 10, 14), 0, 0, TRUE, ZoneRestriction)
Z_heritage ==
    GeofenceZone("zone_b", "Zone B", Rectangle(2, 6, 12, 16), 2, 200, FALSE, ZoneRestriction)
Z_commercial ==
    GeofenceZone("zone_c", "Zone C", Rectangle(0, 6, 10, 16), 10, 480, FALSE, ZoneRestriction)

OverlappingZones == { Z_prohibited, Z_heritage, Z_commercial }

\* the lists a geofence is configured with: the shipped list and every list
\* of distinct overlapping zones
ZoneLists ==
    { restricted_zones } \cup
    { zs \in SeqsUpTo(OverlappingZones, 3) :
        /\ Len(zs) >= 1
        /\ \A i, j \in 1..Len(zs) : i # j => zs[i] # zs[j] }

ZonePoints == { 1, 3, 5, 11, 13, 15 }
ZoneAreas == { 0, 210, 490 }

InitZones == Init

CheckConfiguredZones ==
    /\ ~geo.called
    /\ \E zones \in ZoneLists, lat \in ZonePoints, lon \in ZonePoints, billboard_area_m2 \in ZoneAreas :
        /\ geo' = CheckZones(zones, lat, lon, billboard_area_m2)
                  @@ [restricted_zones |-> zones]
        /\ UNCHANGED <<engineVars, callVars, threadVars, utilVars>>

NextZones == CheckConfiguredZones

SpecZones == InitZones /\ [][NextZones]_vars

\* the zones of the configured list the point lies inside
ContainingZones ==
    { k \in 1..Len(geo.restricted_zones) :
        LiesInside(geo.lat, geo.lon, geo.restricted_zones[k]) }

\* the zone-based violation types the zone calls for
ViolationTypesOfZone(zone) ==
    IF zone.prohibited THEN <<"prohibited_zone">>
    ELSE IF geo.billboard_area_m2 > zone.size_limit_m2
    THEN <<"size_exceeds_zone_limit">>
    ELSE <<>>

\* C26: when the point lies inside one or more configured zones, the first
\* of them in configuration order determines zone_info and the zone-based
\* violation; at most one zone-based violation is returned per call.
C26_FirstMatchingZoneWins ==
    geo.called =>
        /\ Len(ZoneViolations) <= 1
        /\ ContainingZones # {} =>
              LET k == CHOOSE k \in ContainingZones : \A m \in ContainingZones : k <= m
                  zone == geo.restricted_zones[k]
              IN  /\ geo.zone_id = zone.zone_id
                  /\ [i \in 1..Len(ZoneViolations) |-> ZoneViolations[i].type]
                        = ViolationTypesOfZone(zone)

(***************************************************************************)
(* Recommendations and status of check_location_compliance, under          *)
(* SpecGeofence                                                            *)
(***************************************************************************)
TypesOf(violations) == { violations[i].type : i \in 1..Len(violations) }

\* C27: two calls whose violations have the same set of types return the
\* same recommendation list, whatever the point, the area and the matched
\* zone.
C27_RecommendationsFromTypesOnly ==
    [][(geo.called /\ geo'.called
          /\ TypesOf(geo.violations) = TypesOf(geo'.violations))
       => geo'.recommendations = geo.recommendations]_vars

\* C28: compliance_status is "compliant" exactly when the violations list is
\* empty, and it is always one of "compliant", "non_compliant", "prohibited".
C28_CompliantIffNoViolations ==
    geo.called =>
        /\ geo.compliance_status \in { "compliant", "non_compliant", "prohibited" }
        /\ (geo.compliance_status = "compliant") <=> (geo.violations = <<>>)

\* a call with buffer violations and no zone violation
C28_Witness ==
    /\ geo.called
    /\ geo.zone_id = NoZone
    /\ geo.violations # <<>>
    /\ geo.compliance_status = "non_compliant"

(***************************************************************************)
(* License rules of one evaluation, under SpecChecks                       *)
(***************************************************************************)
DefaultRuleSet == \E d \in CityMinDists : rules = _load_default_rules(DefaultMaxArea, d)

\* C29: with the default rule set and any registry callback, an evaluation
\* never returns both a LICENSE_MISSING and a LICENSE_INVALID violation,
\* whatever the license id: None, empty, whitespace only or non-blank.
C29_MissingAndInvalidExclusive ==
    (HasReturned /\ DefaultRuleSet) =>
        ~ /\ OfType(outcome.violations, LICENSE_MISSING) # <<>>
          /\ OfType(outcome.violations, LICENSE_INVALID) # <<>>

(***************************************************************************)
(* SpecAuth: the authentication routes over one user table.  A row of      *)
(* models.User is a record of id, email, role and password; an access      *)
(* token is its payload (sub, email, role), the refresh token issued with  *)
(* it carries the same sub.  bcrypt is modelled as equality of passwords,  *)
(* uuid4 as the next unused number.                                        *)
(***************************************************************************)
valid_roles == { "citizen", "inspector", "admin" }

\* db.query(models.User).filter(column == value).first(): the index of the
\* first row, 0 for None
FirstByEmail(us, email) ==
    LET found == { i \in 1..Len(us) : us[i].email = email }
    IN  IF found = {} THEN 0 ELSE CHOOSE i \in found : \A j \in found : i <= j

FirstById(us, id) ==
    LET found == { i \in 1..Len(us) : us[i].id = id }
    IN  IF found = {} THEN 0 ELSE CHOOSE i \in found : \A j \in found : i <= j

User(id, email, password, role) ==
    [id |-> id, email |-> email, password |-> password, role |-> role]

create_user_tokens(user) == [sub |-> user.id, email |-> user.email, role |-> user.role]

HTTPException(request, status_code, detail) ==
    request @@ [called |-> TRUE, status |-> status_code, detail |-> detail]

Ok(request) == request @@ [called |-> TRUE, status |-> 200, detail |-> "none"]

\* the rows and tokens after a call, and its response
Result(us, tk, resp) == [users |-> us, tokens |-> tk, response |-> resp]

\* a registration that does not look for the email
register_user_unchecked(us, tk, user_data) ==
    LET request == [endpoint |-> "register", email |-> user_data.email, role |-> user_data.role]
        user == User(Len(us) + 1, user_data.email, user_data.password, user_data.role)
    IN  IF user_data.role \notin valid_roles
        THEN Result(us, tk, HTTPException(request, 400, "Invalid role"))
        ELSE Result(Append(us, user), tk \cup {create_user_tokens(user)}, Ok(request))

register_user(us, tk, user_data) ==
    LET request == [endpoint |-> "register", email |-> user_data.email, role |-> user_data.role]
        user == User(Len(us) + 1, user_data.email, user_data.password, user_data.role)
    IN  IF FirstByEmail(us, user_data.email) # 0
        THEN Result(us, tk, HTTPException(request, 400, "Email already registered"))
        ELSE IF user_data.role \notin valid_roles
        THEN Result(us, tk, HTTPException(request, 400, "Invalid role"))
        ELSE Result(Append(us, user), tk \cup {create_user_tokens(user)}, Ok(request))

login_user(us, tk, user_data) ==
    LET request == [endpoint |-> "login", email |-> user_data.email]
        i == FirstByEmail(us, user_data.email)
    IN  IF i = 0 \/ us[i].password # user_data.password
        THEN Result(us, tk, HTTPException(request, 401, "Invalid email or password"))
        ELSE Result(us, tk \cup {create_user_tokens(us[i])}, Ok(request))

demo_users ==
    << [email |-> "admin@billboardsentinel.com", password |-> "admin123", role |-> "admin"],
       [email |-> "inspector@chandigarh.gov.in", password |-> "inspector123", role |-> "inspector"],
       [email |-> "citizen@example.com", password |-> "citizen123", role |-> "citizen"] >>

RECURSIVE DemoLoop(_, _)
DemoLoop(us, i) ==
    IF i > Len(demo_users) THEN us
    ELSE LET user_data == demo_users[i]
         IN  IF FirstByEmail(us, user_data.email) # 0
             THEN DemoLoop(us, i + 1)
             ELSE DemoLoop(Append(us, User(Len(us) + 1, user_data.email,
                                           user_data.password, user_data.role)),
                           i + 1)

create_demo_users(us, tk) ==
    Result(DemoLoop(us, 1), tk, Ok([endpoint |-> "create_demo_users"]))

\* what a request carries in its Authorization header
NoToken == [sub |-> 0, email |-> "", role |-> ""]
NoCredentials == [kind |-> "none", token |-> NoToken, expired |-> FALSE]
Garbage == [kind |-> "garbage", token |-> NoToken, expired |-> FALSE]

\* the headers a client can send: none, a string that is no token of this
\* server, and the access and refresh tokens issued so far, before and after
\* their expiry
Credentials(tk) ==
    { NoCredentials, Garbage }
    \cup { [kind |-> "access", token |-> t, expired |-> e] : t \in tk, e \in BOOLEAN }
    \cup { [kind |-> "refresh", token |-> t, expired |-> FALSE] : t \in tk }

Denied(status_code, detail) == [status |-> status_code, detail |-> detail, user |-> 0]

\* the outcomes of the dependency: HTTPBearer rejects a request without a
\* header with 403 or 401 depending on the framework's version; for a string
\* that does not decode, the handler `except jwt.JWTError` answers 401 where
\* the jwt module has that name and fails (500) where it has not
get_current_user(us, credentials) ==
    IF credentials.kind = "none"
    THEN { Denied(403, "Not authenticated"), Denied(401, "Not authenticated") }
    ELSE IF credentials.kind = "garbage"
    THEN { Denied(401, "Invalid token"), Denied(500, "Internal Server Error") }
    ELSE IF credentials.expired
    THEN { Denied(401, "Token has expired") }
    ELSE IF credentials.kind # "access"
    THEN { Denied(401, "Invalid token type") }
    ELSE IF FirstById(us, credentials.token.sub) = 0
    THEN { Denied(401, "User not found") }
    ELSE { [status |-> 200, detail |-> "none",
            user |-> FirstById(us, credentials.token.sub)] }

\* the role of the token's payload is compared
require_role_of_token(required_role, us, credentials) ==
    { IF o.status = 200 /\ credentials.token.role # required_role
      THEN Denied(403, "Access denied") ELSE o :
        o \in get_current_user(us, credentials) }

\* role_checker: the role of the row just read is compared
require_role(required_role, us, credentials) ==
    { IF o.status = 200 /\ us[o.user].role # required_role
      THEN Denied(403, "Access denied") ELSE o :
        o \in get_current_user(us, credentials) }

\* every authenticated user passes
get_admin_user_any_role(us, credentials) == get_current_user(us, credentials)

get_admin_user(us, credentials) == require_role("admin", us, credentials)

list_users(us, tk, credentials) ==
    LET request == [endpoint |-> "list_users", credentials |-> credentials]
    IN  { IF admin_user.status # 200
          THEN Result(us, tk, HTTPException(request, admin_user.status, admin_user.detail))
          ELSE Result(us, tk, Ok(request)) :
            admin_user \in get_admin_user(us, credentials) }

update_user_role(us, tk, credentials, user_id, new_role) ==
    LET request == [endpoint |-> "update_user_role", credentials |-> credentials,
                    user_id |-> user_id, new_role |-> new_role]
        i == FirstById(us, user_id)
    IN  { IF admin_user.status # 200
          THEN Result(us, tk, HTTPException(request, admin_user.status, admin_user.detail))
          ELSE IF new_role \notin valid_roles
          THEN Result(us, tk, HTTPException(request, 400, "Invalid role"))
          ELSE IF i = 0
          THEN Result(us, tk, HTTPException(request, 404, "User not found"))
          ELSE Result([us EXCEPT ![i].role = new_role], tk, Ok(request)) :
            admin_user \in get_admin_user(us, credentials) }

RegisteredEmails == { "a@x.com", "citizen@example.com" }
RegisteredRoles == valid_roles \cup { "guest" }
LoginEmails == { "a@x.com" }
Passwords == { "pw", "wrong" }
UserIds == { 1, 2, 5 }
NewRoles == { "citizen", "admin", "guest" }

InitAuth == Init

Answered(result) ==
    /\ users' = result.users
    /\ tokens' = result.tokens
    /\ response' = result.response
    /\ UNCHANGED <<engineVars, callVars, threadVars, geo, db, validation, estimate, pip, summary>>

RegisterUser ==
    /\ ~response.called
    /\ \E email \in RegisteredEmails, role \in RegisteredRoles :
          Answered(register_user(users, tokens,
                       [email |-> email, password |-> "pw", role |-> role]))

LoginUser ==
    /\ ~response.called
    /\ \E email \in LoginEmails, password \in Passwords :
          Answered(login_user(users, tokens, [email |-> email, password |-> password]))

CreateDemoUsers ==
    /\ ~response.called
    /\ Answered(create_demo_users(users, tokens))

ListUsers ==
    /\ ~response.called
    /\ \E credentials \in Credentials(tokens) :
          \E result \in list_users(users, tokens, credentials) : Answered(result)

UpdateUserRole ==
    /\ ~response.called
    /\ \E credentials \in Credentials(tokens), user_id \in UserIds, new_role \in NewRoles :
          \E result \in update_user_role(users, tokens, credentials, user_id, new_role) :
              Answered(result)

\* the client is done with the response
DiscardResponse ==
    /\ response.called
    /\ response' = NoCall
    /\ UNCHANGED <<engineVars, callVars, threadVars, geo, db, validation, estimate, pip, summary, users, tokens>>

NextAuth ==
    \/ RegisterUser
    \/ LoginUser
    \/ CreateDemoUsers
    \/ ListUsers
    \/ UpdateUserRole
    \/ DiscardResponse

SpecAuth == InitAuth /\ [][NextAuth]_vars

(***************************************************************************)
(* What the claims on the authentication routes speak of                   *)
(***************************************************************************)
NoSharedEmail(us) ==
    \A i, j \in 1..Len(us) : i # j => us[i].email # us[j].email

\* C24: a registration with an email that is already registered is answered
\* with status 400, "Email already registered", and leaves the user table as
\* it was; after any sequence of register and create-demo-users calls no two
\* users share an email.
C24_DuplicateEmailRejected ==
    [][/\ (response'.called /\ response'.endpoint = "register"
             /\ FirstByEmail(users, response'.email) # 0)
          => /\ response'.status = 400
             /\ response'.detail = "Email already registered"
             /\ users' = users
       /\ NoSharedEmail(users')]_vars

\* a registration with the email of a demo user is rejected
C24_Witness ==
    /\ response.called
    /\ response.endpoint = "register"
    /\ response.email = "citizen@example.com"
    /\ response.status = 400
    /\ Len(users) = 3

\* the request carries an access token this server issued, not expired, of
\* a user of the table
ValidAccessToken(us, tk, credentials) ==
    /\ credentials.kind = "access"
    /\ ~credentials.expired
    /\ credentials.token \in tk
    /\ FirstById(us, credentials.token.sub) # 0

StoredRole(us, credentials) == us[FirstById(us, credentials.token.sub)].role

AdminRequest(resp) ==
    resp.called /\ resp.endpoint \in { "list_users", "update_user_role" }

\* C25: list users and update user role succeed only for a request with a
\* valid access token of a user whose role is admin; a request authenticated
\* as a citizen or inspector is answered with 403 and no role changes.
C25_AdminOnlyEndpoints ==
    [][AdminRequest(response') =>
        /\ response'.status = 200 =>
              /\ ValidAccessToken(users, tokens, response'.credentials)
              /\ StoredRole(users, response'.credentials) = "admin"
        /\ (/\ ValidAccessToken(users, tokens, response'.credentials)
            /\ StoredRole(users, response'.credentials) \in { "citizen", "inspector" })
           => /\ response'.status = 403
              /\ users' = users]_vars

\* an inspector asked for the role admin and was refused
C25_Witness ==
    /\ response.called
    /\ response.endpoint = "update_user_role"
    /\ response.new_role = "admin"
    /\ ValidAccessToken(users, tokens, response.credentials)
    /\ StoredRole(users, response.credentials) = "inspector"
    /\ response.status = 403

\* C30: an access token issued before update_user_role changed its user's
\* role is authorized by the role stored at the time of the request: 403 on
\* the admin-only endpoints for a demoted admin, accepted for a promoted
\* user.
C30_StoredRoleDecides ==
    [][(/\ AdminRequest(response')
        /\ ValidAccessToken(users, tokens, response'.credentials)
        /\ response'.credentials.token.role # StoredRole(users, response'.credentials))
       => IF StoredRole(users, response'.credentials) = "admin"
          THEN response'.status \in { 200, 400, 404 }
          ELSE response'.status = 403 /\ users' = users]_vars

\* a token issued to an admin, presented after the demotion, is refused
C30_Witness ==
    /\ response.called
    /\ response.endpoint = "list_users"
    /\ ValidAccessToken(users, tokens, response.credentials)
    /\ response.credentials.token.role = "admin"
    /\ StoredRole(users, response.credentials) = "citizen"
    /\ response.status = 403

====
